---------------------------- MODULE Spec2Model ----------------------------
(***************************************************************************)
(* A model of the rssh client: the AsyncBuf byte buffer, the buffered      *)
(* non-blocking reader and writer, the unencrypted packet framer, the SSH  *)
(* binary codec, the version exchange, the exchange-hash builder and the   *)
(* key-exchange state machine with its driver.                             *)
(*                                                                         *)
(* Bytes are integers 0..255, byte strings are sequences of bytes.  Rust   *)
(* offsets are 0-based; the sequences here are 1-based, so the slice       *)
(* buf[a .. b] of the source is SubSeq(buf, a + 1, b).                     *)
(***************************************************************************)
EXTENDS Integers, Sequences, FiniteSets, TLC

VARIABLES frm, codec, kex, drv

vars == <<frm, codec, kex, drv>>

None == "None"

Min(a, b) == IF a <= b THEN a ELSE b

Max(a, b) == IF a >= b THEN a ELSE b

Take(s, n) == SubSeq(s, 1, Min(n, Len(s)))

Drop(s, n) == SubSeq(s, Min(n, Len(s)) + 1, Len(s))

Zeros(n) == [i \in 1..n |-> 0]

RECURSIVE Concat(_)
Concat(ss) == IF Len(ss) = 0 THEN <<>> ELSE Head(ss) \o Concat(Tail(ss))

(***************************************************************************)
(* transport.rs: network byte order.                                       *)
(***************************************************************************)
ntoh(buf) == buf[1] * 16777216 + buf[2] * 65536 + buf[3] * 256 + buf[4]

hton(n) ==
  << (n \div 16777216) % 256, (n \div 65536) % 256, (n \div 256) % 256, n % 256 >>

(***************************************************************************)
(* async/buf.rs: AsyncBuf is [buf, pos, cap]; Len(buf) is the capacity.    *)
(***************************************************************************)
with_capacity(capacity) == [buf |-> Zeros(capacity), pos |-> 0, cap |-> 0]

data_size(b) == b.cap - b.pos

get_ref(b) == SubSeq(b.buf, b.pos + 1, b.cap)

get_mut_len(b) == Len(b.buf) - b.cap

is_empty(b) == data_size(b) = 0

capacity(b) == Len(b.buf)

\* A try_reserve that slides whenever the data and n fit the region, with
\* no look at the head slack.
try_reserve_any_slide(b, n) ==
  IF b.cap + n <= Len(b.buf) THEN <<b, TRUE>>
  ELSE LET data_len == b.cap - b.pos IN
       IF data_len + n > Len(b.buf) THEN <<b, FALSE>>
       ELSE << [buf |-> [i \in 1..Len(b.buf) |->
                           IF i <= data_len THEN b.buf[b.pos + i] ELSE b.buf[i]],
                pos |-> 0, cap |-> data_len], TRUE >>

\* try_reserve: <<the buffer afterwards, the bool returned>>
try_reserve(b, n) ==
  IF b.cap + n <= Len(b.buf) THEN <<b, TRUE>>
  ELSE LET data_len == b.cap - b.pos IN
       IF data_len > b.pos \/ data_len + n > Len(b.buf) THEN <<b, FALSE>>
       ELSE << [buf |-> [i \in 1..Len(b.buf) |->
                           IF i <= data_len THEN b.buf[b.pos + i] ELSE b.buf[i]],
                pos |-> 0, cap |-> data_len], TRUE >>

RECURSIVE grow_capacity(_, _)
grow_capacity(new_capacity, target_cap) ==
  IF new_capacity < target_cap THEN grow_capacity(new_capacity * 2, target_cap)
  ELSE new_capacity

\* The doubling loop of reserve never ends from capacity 0.
reserve_diverges(b, n) == ~try_reserve(b, n)[2] /\ Len(b.buf) = 0

reserve(b, n) ==
  LET grown(new_capacity) ==
        [b EXCEPT !.buf = b.buf \o Zeros(new_capacity - Len(b.buf))]
      reserved(r) ==
        IF r[2] THEN r[1] ELSE grown(grow_capacity(Len(b.buf), b.cap + n))
  IN reserved(try_reserve(b, n))

\* A fill that does not stop at the end of the region.
fill_unclamped(b, n) == [b EXCEPT !.cap = b.cap + n]

fill(b, n) == [b EXCEPT !.cap = Min(b.cap + n, Len(b.buf))]

\* A consume that empties the buffer whatever n is.
consume_everything(b, n) == [b EXCEPT !.pos = 0, !.cap = 0]

consume(b, n) ==
  IF b.pos + n >= b.cap THEN [b EXCEPT !.pos = 0, !.cap = 0]
  ELSE [b EXCEPT !.pos = b.pos + n]

consume_and_get_panics(b, n) == b.pos + n > b.cap

\* A consume_and_get that drops the bytes buffered beyond n.
consume_and_get_all(b, n) ==
  << consume(b, data_size(b)), SubSeq(b.buf, b.pos + 1, b.pos + n) >>

\* consume_and_get: <<the buffer afterwards, the slice returned>>
consume_and_get(b, n) ==
  << consume(b, n), SubSeq(b.buf, b.pos + 1, b.pos + n) >>

\* Copying bytes into the head of get_mut(), the cursors left alone.
copy_to_mut(b, bytes) ==
  [b EXCEPT !.buf = [i \in 1..Len(b.buf) |->
                       IF i > b.cap /\ i <= b.cap + Len(bytes)
                       THEN bytes[i - b.cap] ELSE b.buf[i]]]

write_buf(b, bytes) ==
  [copy_to_mut(b, bytes) EXCEPT !.cap = b.cap + Len(bytes)]

\* try_write_all: <<the buffer afterwards, the bool returned>>
try_write_all(b, bytes) ==
  IF b.cap + Len(bytes) <= Len(b.buf) THEN <<write_buf(b, bytes), TRUE>>
  ELSE <<b, FALSE>>

write_all(b, bytes) == write_buf(reserve(b, Len(bytes)), bytes)


(***************************************************************************)
(* The byte source under an AsyncBufReader: [data, eof].  data are the     *)
(* bytes the peer has still to deliver; eof tells whether the peer closes  *)
(* the stream after them.  One read is asked for with a request o: -1 is   *)
(* a read that finds nothing arrived (WouldBlock), o >= 1 a read that      *)
(* finds at most o bytes arrived.                                          *)
(***************************************************************************)
WouldBlock == -1

\* Read::read on the source: <<the source afterwards, the bytes read, n>>,
\* n = WouldBlock or the count returned (0 at end of stream).
inner_read(src, space, o) ==
  IF src.data = <<>>
  THEN (IF src.eof /\ o # WouldBlock THEN <<src, <<>>, 0>> ELSE <<src, <<>>, WouldBlock>>)
  ELSE IF o = WouldBlock THEN <<src, <<>>, WouldBlock>>
  ELSE LET k == Min(o, Min(space, Len(src.data))) IN
       << [src EXCEPT !.data = Drop(src.data, k)], Take(src.data, k), k >>

(***************************************************************************)
(* async/bufreader.rs: AsyncBufReader is [inner, buf].                     *)
(***************************************************************************)
AsyncBufReader_with_capacity(cap0, src) == [inner |-> src, buf |-> with_capacity(cap0)]

\* A fill_buf_no_eof that takes a zero-length read for a read of no bytes.
fill_buf_with_eof(rd, o) ==
  LET filled(r) ==
        IF r[3] = WouldBlock THEN [rd |-> rd, err |-> "WouldBlock"]
        ELSE [rd |-> [inner |-> r[1], buf |-> fill(copy_to_mut(rd.buf, r[2]), r[3])],
              err |-> None]
  IN filled(inner_read(rd.inner, get_mut_len(rd.buf), o))

\* fill_buf_no_eof: [rd, err] with err = None, "WouldBlock" or "UnexpectedEof"
fill_buf_no_eof(rd, o) ==
  LET filled(r) ==
        IF r[3] = WouldBlock THEN [rd |-> rd, err |-> "WouldBlock"]
        ELSE IF r[3] = 0 THEN [rd |-> rd, err |-> "UnexpectedEof"]
        ELSE [rd |-> [inner |-> r[1], buf |-> fill(copy_to_mut(rd.buf, r[2]), r[3])],
              err |-> None]
  IN filled(inner_read(rd.inner, get_mut_len(rd.buf), o))

\* nb_read_exact: [rd, tag, val, reads]; tag is "Ready" (val the slice),
\* "NotReady" or "Err" (val the error kind); reads counts the reads made
\* of the source (0 or 1).
nb_read_exact(rd, n, o) ==
  LET got(rd1, g, reads) ==
        [rd |-> [rd1 EXCEPT !.buf = g[1]], tag |-> "Ready", val |-> g[2],
         reads |-> reads]
      filled(f) ==
        IF f.err = "WouldBlock"
        THEN [rd |-> f.rd, tag |-> "NotReady", val |-> <<>>, reads |-> 1]
        ELSE IF f.err # None
        THEN [rd |-> f.rd, tag |-> "Err", val |-> f.err, reads |-> 1]
        ELSE IF data_size(f.rd.buf) < n
        THEN [rd |-> f.rd, tag |-> "NotReady", val |-> <<>>, reads |-> 1]
        ELSE got(f.rd, consume_and_get(f.rd.buf, n), 1)
  IN IF data_size(rd.buf) >= n
     THEN got(rd, consume_and_get(rd.buf, n), 0)
     ELSE filled(fill_buf_no_eof([rd EXCEPT !.buf = reserve(rd.buf, n)], o))

\* The number of bytes before the first byte equal to delim, -1 if there
\* is none: iter().position(|&c| c == byte).
RECURSIVE iter_position(_, _, _)
iter_position(bytes, delim, i) ==
  IF i > Len(bytes) THEN -1
  ELSE IF bytes[i] = delim THEN i - 1
  ELSE iter_position(bytes, delim, i + 1)

\* An nb_read_until that takes the delimiter with the line.
nb_read_until_past(rd, byte, limit, o) ==
  LET got(rd1, g) == [rd |-> [rd1 EXCEPT !.buf = g[1]], tag |-> "Ready", val |-> g[2]]
      found(rd1, idx) ==
        IF idx >= 0 THEN got(rd1, consume_and_get(rd1.buf, idx + 1))
        ELSE IF data_size(rd1.buf) < limit
        THEN [rd |-> rd1, tag |-> "NotReady", val |-> <<>>]
        ELSE [rd |-> rd1, tag |-> "Err", val |-> "InvalidData"]
      filled(f) ==
        IF f.err = "WouldBlock" THEN [rd |-> f.rd, tag |-> "NotReady", val |-> <<>>]
        ELSE IF f.err # None THEN [rd |-> f.rd, tag |-> "Err", val |-> f.err]
        ELSE found(f.rd, iter_position(get_ref(f.rd.buf), byte, 1))
      buffered(idx) ==
        IF idx >= 0 THEN got(rd, consume_and_get(rd.buf, idx + 1))
        ELSE filled(fill_buf_no_eof([rd EXCEPT !.buf = reserve(rd.buf, limit)], o))
  IN buffered(iter_position(get_ref(rd.buf), byte, 1))

\* nb_read_until: [rd, tag, val], as nb_read_exact gives them.
nb_read_until(rd, byte, limit, o) ==
  LET got(rd1, g) == [rd |-> [rd1 EXCEPT !.buf = g[1]], tag |-> "Ready", val |-> g[2]]
      found(rd1, idx) ==
        IF idx >= 0 THEN got(rd1, consume_and_get(rd1.buf, idx))
        ELSE IF data_size(rd1.buf) < limit
        THEN [rd |-> rd1, tag |-> "NotReady", val |-> <<>>]
        ELSE [rd |-> rd1, tag |-> "Err", val |-> "InvalidData"]
      filled(f) ==
        IF f.err = "WouldBlock" THEN [rd |-> f.rd, tag |-> "NotReady", val |-> <<>>]
        ELSE IF f.err # None THEN [rd |-> f.rd, tag |-> "Err", val |-> f.err]
        ELSE found(f.rd, iter_position(get_ref(f.rd.buf), byte, 1))
      buffered(idx) ==
        IF idx >= 0 THEN got(rd, consume_and_get(rd.buf, idx))
        ELSE filled(fill_buf_no_eof([rd EXCEPT !.buf = reserve(rd.buf, limit)], o))
  IN buffered(iter_position(get_ref(rd.buf), byte, 1))

\* The bytes the reader has not yet handed to its caller.
unread(rd) == get_ref(rd.buf) \o rd.inner.data

(***************************************************************************)
(* transport.rs: UnencryptedStream is [inner, rd_header].                  *)
(***************************************************************************)
\* rd_header: <<>> is None, <<pkt_len, pad_len>> is Some((pkt_len, pad_len)).
UnencryptedStream_new(rd) == [inner |-> rd, rd_header |-> <<>>]

\* A header check that lets pkt_len = pad_len through.
invalid_header_off_by_one(pkt_len, pad_len) == pkt_len < 16 \/ pkt_len < pad_len

invalid_header(pkt_len, pad_len) == pkt_len < 16 \/ pkt_len < pad_len + 1

\* A payload read that drops the bytes buffered so far when it has to wait.
nb_read_payload_dropping(s, o) ==
  LET dropped(rd) == [rd EXCEPT !.buf = consume(rd.buf, data_size(rd.buf))]
      read(pkt_len, pad_len, r) ==
        IF r.tag = "Ready"
        THEN [s |-> [inner |-> r.rd, rd_header |-> <<>>], tag |-> "Ready",
              val |-> SubSeq(r.val, 1, pkt_len - pad_len - 1)]
        ELSE [s |-> [s EXCEPT !.inner = dropped(r.rd)], tag |-> r.tag, val |-> r.val]
  IN read(s.rd_header[1], s.rd_header[2],
          nb_read_exact(s.inner, s.rd_header[1] - 1, o))

\* The Some((pkt_len, pad_len)) arm of nb_read_packet.
nb_read_payload(s, o) ==
  LET read(pkt_len, pad_len, r) ==
        IF r.tag = "Ready"
        THEN [s |-> [inner |-> r.rd, rd_header |-> <<>>], tag |-> "Ready",
              val |-> SubSeq(r.val, 1, pkt_len - pad_len - 1)]
        ELSE [s |-> [s EXCEPT !.inner = r.rd], tag |-> r.tag, val |-> r.val]
  IN read(s.rd_header[1], s.rd_header[2],
          nb_read_exact(s.inner, s.rd_header[1] - 1, o))

\* nb_read_packet: [s, tag, val]; o1 and o2 are the requests of the first
\* and the second read of the source this call makes.
nb_read_packet(s, o1, o2) ==
  LET header(r, pkt_len, pad_len) ==
        IF invalid_header(pkt_len, pad_len)
        THEN [s |-> [s EXCEPT !.inner = r.rd], tag |-> "Err", val |-> "InvalidData"]
        ELSE nb_read_payload([inner |-> r.rd, rd_header |-> <<pkt_len, pad_len>>],
                             IF r.reads = 0 THEN o1 ELSE o2)
      read(r) ==
        IF r.tag # "Ready"
        THEN [s |-> [s EXCEPT !.inner = r.rd], tag |-> r.tag, val |-> r.val]
        ELSE header(r, ntoh(SubSeq(r.val, 1, 4)), r.val[5])
  IN IF s.rd_header = <<>> THEN read(nb_read_exact(s.inner, 5, o1))
     ELSE nb_read_payload(s, o1)

(***************************************************************************)
(* The byte sink under an AsyncBufWriter: [data], the bytes received.  A   *)
(* write or a flush is asked for with a request o: WouldBlock, or accept   *)
(* at most o bytes.  A counting sink also has the fields writes, the calls *)
(* of write it received, and flushes, the calls of flush that succeeded.   *)
(***************************************************************************)
counted_write(sink) ==
  IF "writes" \in DOMAIN sink THEN [sink EXCEPT !.writes = @ + 1] ELSE sink

counted_flush(sink) ==
  IF "flushes" \in DOMAIN sink THEN [sink EXCEPT !.flushes = @ + 1] ELSE sink

\* Write::write on the sink: <<the sink afterwards, n>>, n = WouldBlock or
\* the count accepted.
inner_write(sink, bytes, o) ==
  IF o = WouldBlock THEN <<counted_write(sink), WouldBlock>>
  ELSE LET k == Min(o, Len(bytes)) IN
       << [counted_write(sink) EXCEPT !.data = sink.data \o Take(bytes, k)], k >>

(***************************************************************************)
(* async/bufwriter.rs: AsyncBufWriter is [inner, buf, panicked].           *)
(***************************************************************************)
AsyncBufWriter_with_capacity(cap0, sink) ==
  [inner |-> sink, buf |-> with_capacity(cap0), panicked |-> FALSE]

\* write_inner: [w, n]
write_inner(w, bytes, o) ==
  LET wrote(r) == [w |-> [w EXCEPT !.inner = r[1], !.panicked = FALSE], n |-> r[2]]
  IN wrote(inner_write(w.inner, bytes, o))

\* flush_inner: [w, n], n = WouldBlock or 0; the sink of the model keeps
\* nothing back, so its flush changes none of its bytes.
flush_inner(w, o) ==
  IF o = WouldBlock THEN [w |-> [w EXCEPT !.panicked = FALSE], n |-> WouldBlock]
  ELSE [w |-> [w EXCEPT !.inner = counted_flush(w.inner), !.panicked = FALSE], n |-> 0]

\* A flush of the buffer that reports Ready as soon as the sink took bytes.
nb_flush_buf_partial(w, o) ==
  LET wrote(r) ==
        IF r[2] = WouldBlock
        THEN [w |-> [w EXCEPT !.inner = r[1], !.panicked = TRUE], tag |-> "NotReady"]
        ELSE [w |-> [inner |-> r[1], buf |-> consume(w.buf, r[2]), panicked |-> FALSE],
              tag |-> "Ready"]
  IN wrote(inner_write(w.inner, get_ref(w.buf), o))

\* nb_flush_buf: [w, tag].  try_nb! returns NotReady on WouldBlock before
\* panicked is cleared.
nb_flush_buf(w, o) ==
  LET consumed(inner, b) ==
        [w |-> [inner |-> inner, buf |-> b, panicked |-> FALSE],
         tag |-> IF is_empty(b) THEN "Ready" ELSE "NotReady"]
      wrote(r) ==
        IF r[2] = WouldBlock
        THEN [w |-> [w EXCEPT !.inner = r[1], !.panicked = TRUE], tag |-> "NotReady"]
        ELSE consumed(r[1], consume(w.buf, r[2]))
  IN wrote(inner_write(w.inner, get_ref(w.buf), o))

\* nb_flush: [w, tag]; o1 is the request of the write, o2 that of the flush.
nb_flush(w, o1, o2) ==
  LET flushed(r) ==
        [w |-> r.w, tag |-> IF r.n = WouldBlock THEN "NotReady" ELSE "Ready"]
      buffered(f) ==
        IF f.tag = "NotReady" THEN f
        ELSE IF is_empty(f.w.buf) THEN flushed(flush_inner(f.w, o2))
        ELSE [w |-> f.w, tag |-> "NotReady"]
  IN buffered(IF ~is_empty(w.buf) THEN nb_flush_buf(w, o1)
              ELSE [w |-> w, tag |-> "Ready"])

\* nb_write_exact: [w, tag]; o1 and o2 are the requests of the first and the
\* second write of the sink this call makes.
nb_write_exact(w, bytes, o1, o2) ==
  LET \* buf.len() > self.buf.capacity()
      wrote(r) ==
        IF r.n = WouldBlock THEN [w |-> r.w, tag |-> "NotReady"]
        ELSE [w |-> [r.w EXCEPT !.buf = write_all(r.w.buf, Drop(bytes, r.n))],
              tag |-> "Ready"]
      large(f) ==
        IF f.tag = "NotReady" THEN f
        ELSE wrote(write_inner(f.w, bytes, IF is_empty(w.buf) THEN o1 ELSE o2))
      \* the buffer holds buf
      retried(w1, t2) ==
        IF t2[2] THEN [w |-> [w1 EXCEPT !.buf = t2[1]], tag |-> "Ready"]
        ELSE [w |-> w1, tag |-> "NotReady"]
      flushed(f) ==
        IF f.tag = "NotReady" THEN f
        ELSE retried(f.w, try_write_all(f.w.buf, bytes))
      small(t) ==
        IF t[2] THEN [w |-> [w EXCEPT !.buf = t[1]], tag |-> "Ready"]
        ELSE flushed(nb_flush_buf(w, o1))
  IN IF Len(bytes) > capacity(w.buf)
     THEN large(IF ~is_empty(w.buf) THEN nb_flush_buf(w, o1)
                ELSE [w |-> w, tag |-> "Ready"])
     ELSE small(try_write_all(w.buf, bytes))

(***************************************************************************)
(* transport.rs: UnencryptedWritePacket is [payload, padding, wr_state];   *)
(* the writer it owns (inner) is kept beside it.                           *)
(***************************************************************************)
write_pad_len(payload_len) == 16 - ((payload_len + 5) % 8)

unencrypted_write_packet(payload, fill_byte) ==
  [payload |-> payload,
   padding |-> [i \in 1..write_pad_len(Len(payload)) |-> fill_byte],
   wr_state |-> "BeforeHeader"]

write_header(p) ==
  LET pkt_len == Len(p.payload) + Len(p.padding) + 1 IN
  << (pkt_len \div 16777216) % 256, (pkt_len \div 65536) % 256,
     (pkt_len \div 256) % 256, pkt_len % 256, Len(p.padding) % 256 >>

\* UnencryptedWritePacket::poll: [p, w, tag]; every nb_write_exact of the
\* poll meets the sink requests o1, o2.
RECURSIVE UnencryptedWritePacket_poll(_, _, _, _)
UnencryptedWritePacket_poll(p, w, o1, o2) ==
  LET wrote(r) ==
        IF r.tag = "NotReady" THEN [p |-> p, w |-> r.w, tag |-> "NotReady"]
        ELSE IF p.wr_state = "BeforeHeader"
        THEN UnencryptedWritePacket_poll([p EXCEPT !.wr_state = "BeforePayload"],
                                         r.w, o1, o2)
        ELSE IF p.wr_state = "BeforePayload"
        THEN UnencryptedWritePacket_poll([p EXCEPT !.wr_state = "BeforePadding"],
                                         r.w, o1, o2)
        ELSE [p |-> p, w |-> r.w, tag |-> "Ready"]
  IN wrote(nb_write_exact(w,
                          CASE p.wr_state = "BeforeHeader" -> write_header(p)
                            [] p.wr_state = "BeforePayload" -> p.payload
                            [] OTHER -> p.padding,
                          o1, o2))

(***************************************************************************)
(* The framer under test: frm.rs is the UnencryptedStream, frm.out the     *)
(* payloads its Ready results delivered, frm.rest the unread bytes left    *)
(* at each delivery, frm.res and frm.err the last result.  frm.stream and  *)
(* frm.hdr record the bytes and the header the run started from.           *)
(***************************************************************************)
MaxChunk == 2

MaxExtra == 1

\* Requests for one read of the source: nothing arrived, a few bytes, or
\* everything that fits.
Everything == 1000000

\* Streams longer than LongStream are split coarsely only.
LongStream == 64

CoarseChunk == 7

CoarseRequests == {WouldBlock, CoarseChunk, Everything}

ReadRequests(stream) ==
  IF Len(stream) > LongStream THEN CoarseRequests
  ELSE {WouldBlock, Everything} \cup 1..MaxChunk

ReaderCapacities == {1, 8}

HeaderPktLens == {0, 12, 15, 16, 17, 20, 272}

HeaderPadLens == {0, 4, 11, 15, 16, 19, 255}

\* A body whose bytes tell their own offsets apart.
BodyBytes(n) == [i \in 1..n |-> (i * 7) % 251]

MaxPackets == 2

MaxPayload == 3

WriterCapacities == {4, 32}

PadFill == {0, 255}

WriteRequests == CoarseRequests

\* The j-th payload written, of length n.
PayloadBytes(j, n) == [i \in 1..n |-> 16 * j + i]

\* frm.w: the payloads to write, how many were written, the write future
\* (<<>> when there is none) and the writer.
frmNoWriter ==
  [payloads |-> <<>>, widx |-> 0, wp |-> <<>>,
   wr |-> AsyncBufWriter_with_capacity(0, [data |-> <<>>])]

FrmReading(stream, eof, cap0, hdr, w) ==
  [mode |-> "read",
   rs |-> UnencryptedStream_new(
            AsyncBufReader_with_capacity(cap0, [data |-> stream, eof |-> eof])),
   out |-> <<>>, rest |-> <<>>, res |-> "NotReady", err |-> None,
   midway |-> FALSE, stream |-> stream, hdr |-> hdr, w |-> w]

FrmWriting(payloads, wcap) ==
  [mode |-> "write",
   rs |-> UnencryptedStream_new(
            AsyncBufReader_with_capacity(0, [data |-> <<>>, eof |-> TRUE])),
   out |-> <<>>, rest |-> <<>>, res |-> "NotReady", err |-> None,
   stream |-> <<>>, hdr |-> <<0, 0>>,
   w |-> [payloads |-> payloads, widx |-> 0, wp |-> <<>>,
          wr |-> AsyncBufWriter_with_capacity(wcap, [data |-> <<>>])]]

frmIdle == [mode |-> "idle"]

codecIdle == [mode |-> "idle"]

kexIdle == [mode |-> "idle"]

drvIdle == [mode |-> "idle"]

InitRead ==
  /\ \E pkt_len \in HeaderPktLens, pad_len \in HeaderPadLens,
        short \in {0, 3}, extra \in 0..MaxExtra, eof \in BOOLEAN,
        cap0 \in ReaderCapacities :
       \* one long packet only: a header with a non-zero second length byte
       /\ pkt_len > LongStream => (short = 0 /\ ~eof /\ cap0 = 8 /\ pad_len \in {4, 255})
       /\ frm = FrmReading(hton(pkt_len) \o <<pad_len>>
                          \o BodyBytes(IF pkt_len > short THEN pkt_len - 1 - short ELSE 0)
                          \o [i \in 1..extra |-> 255],
                        eof, cap0, <<pkt_len, pad_len>>, frmNoWriter)
  /\ codec = codecIdle /\ kex = kexIdle /\ drv = drvIdle

\* One call of UnencryptedStream::nb_read_packet.
ReadPacket(o1, o2) ==
  /\ frm.mode = "read"
  /\ frm.res # "Err"
  /\ \E r \in {nb_read_packet(frm.rs, o1, o2)} :
       frm' = [frm EXCEPT !.rs = r.s,
                          !.res = r.tag,
                          !.err = IF r.tag = "Err" THEN r.val ELSE None,
                          !.out = IF r.tag = "Ready" THEN Append(@, r.val) ELSE @,
                          !.midway = @ \/ (r.tag = "NotReady" /\ r.s.rd_header # <<>>),
                          !.rest = IF r.tag = "Ready" THEN Append(@, unread(r.s.inner))
                                   ELSE @]
  /\ UNCHANGED <<codec, kex, drv>>

NextRead ==
  \E o1 \in ReadRequests(frm.stream), o2 \in ReadRequests(frm.stream) : ReadPacket(o1, o2)

SpecRead == InitRead /\ [][NextRead]_vars

\* C9: nb_read_packet rejects the header (pkt_len, pad_len) with InvalidData
\* exactly when pkt_len < 16 or pkt_len < pad_len + 1, as soon as the five
\* header bytes are consumed and without returning a payload; otherwise the
\* first packet returned is the first pkt_len - pad_len - 1 bytes after the
\* header, and exactly pkt_len - 1 bytes after the header are consumed.
C9_HeaderCheck ==
  LET pkt_len == frm.hdr[1]
      pad_len == frm.hdr[2]
      rejected == pkt_len < 16 \/ pkt_len < pad_len + 1
      header_consumed == Len(unread(frm.rs.inner)) + 5 <= Len(frm.stream)
  IN /\ frm.err = "InvalidData" => rejected
     /\ rejected => frm.out = <<>> /\ frm.rs.rd_header = <<>>
     /\ rejected /\ header_consumed => frm.err = "InvalidData"
     /\ ~rejected /\ header_consumed /\ frm.out = <<>> =>
          frm.rs.rd_header = <<pkt_len, pad_len>>
     /\ Len(frm.out) >= 1 =>
          /\ frm.out[1] = SubSeq(frm.stream, 6, 5 + pkt_len - pad_len - 1)
          /\ frm.rest[1] = Drop(frm.stream, 4 + pkt_len)

\* The header 00 00 00 10 04 followed by 15 bytes yielded an 11-byte payload.
C9_Witness ==
  /\ frm.mode = "read"
  /\ frm.hdr = <<16, 4>>
  /\ Len(frm.stream) = 20
  /\ Len(frm.out) = 1
  /\ Len(frm.out[1]) = 11

(***************************************************************************)
(* Writing payloads back-to-back with unencrypted_write_packet, flushing   *)
(* the writer, and reading the sink's bytes with a fresh UnencryptedStream.*)
(***************************************************************************)
InitFraming ==
  /\ \E n \in 1..MaxPackets, wcap \in WriterCapacities :
       \E lens \in [1..n -> 0..MaxPayload] :
         frm = FrmWriting([j \in 1..n |-> PayloadBytes(j, lens[j])], wcap)
  /\ codec = codecIdle /\ kex = kexIdle /\ drv = drvIdle

\* unencrypted_write_packet(sink, payload, rng) for the next payload.
StartWrite(fill_byte) ==
  /\ frm.mode = "write"
  /\ frm.w.wp = <<>>
  /\ frm.w.widx < Len(frm.w.payloads)
  /\ frm' = [frm EXCEPT !.w.wp =
               << unencrypted_write_packet(frm.w.payloads[frm.w.widx + 1], fill_byte) >>]
  /\ UNCHANGED <<codec, kex, drv>>

\* One poll of the UnencryptedWritePacket future.
WritePoll(o1, o2) ==
  /\ frm.mode = "write"
  /\ frm.w.wp # <<>>
  /\ \E r \in {UnencryptedWritePacket_poll(frm.w.wp[1], frm.w.wr, o1, o2)} :
       frm' = [frm EXCEPT !.w.wr = r.w,
                          !.w.wp = IF r.tag = "Ready" THEN <<>> ELSE << r.p >>,
                          !.w.widx = IF r.tag = "Ready" THEN @ + 1 ELSE @]
  /\ UNCHANGED <<codec, kex, drv>>

\* nb_into_inner once every payload is written: nb_flush, and on Ready the
\* sink's bytes become the stream of a fresh reader.
FlushWriter(o1, o2, rcap) ==
  /\ frm.mode = "write"
  /\ frm.w.wp = <<>>
  /\ frm.w.widx = Len(frm.w.payloads)
  /\ \E r \in {nb_flush(frm.w.wr, o1, o2)} :
       frm' = IF r.tag = "Ready"
              THEN FrmReading(r.w.inner.data, TRUE, rcap, <<0, 0>>,
                              [frm.w EXCEPT !.wr = r.w])
              ELSE [frm EXCEPT !.w.wr = r.w]
  /\ UNCHANGED <<codec, kex, drv>>

NextFraming ==
  \/ \E fill_byte \in PadFill : StartWrite(fill_byte)
  \/ \E o1 \in WriteRequests, o2 \in WriteRequests : WritePoll(o1, o2)
  \/ \E o1 \in WriteRequests, o2 \in WriteRequests : FlushWriter(o1, o2, 8)
  \/ \E o1 \in CoarseRequests, o2 \in CoarseRequests : ReadPacket(o1, o2)

SpecFraming == InitFraming /\ [][NextFraming]_vars

IsPrefix(s, t) == Len(s) <= Len(t) /\ s = SubSeq(t, 1, Len(s))

\* C8: the stream written for N payloads back-to-back is parsed by a fresh
\* reader into exactly those payloads, in order, and no error comes before
\* all N are delivered.
C8_FramingRoundTrip ==
  frm.mode = "read" =>
    /\ IsPrefix(frm.out, frm.w.payloads)
    /\ frm.err # None => frm.out = frm.w.payloads

(***************************************************************************)
(* packet/encoder.rs: BinaryEncoder.  A value is serialized by the kind of *)
(* its type: bool, u8 and u32 are numbers, a string and a byte string are  *)
(* byte sequences, a struct is the sequence of its fields' values, an enum *)
(* value is [variant, fields], a name is [name, unknown] (name = 0 is      *)
(* Unknown(unknown)), a name list is a sequence of names.                  *)
(***************************************************************************)
serialize_bool(v) == << IF v THEN 1 ELSE 0 >>

serialize_u8(v) == << v >>

serialize_u32(v) ==
  << (v \div 16777216) % 256, (v \div 65536) % 256, (v \div 256) % 256, v % 256 >>

serialize_bytes(v) == serialize_u32(Len(v)) \o v

serialize_str(v) == serialize_bytes(v)

ser_bytes(val) == serialize_bytes(val)

\* impl AsRef<str> of a name enum with the names `names`.
as_ref(names, v) == IF v.name = 0 THEN v.unknown ELSE names[v.name]

\* impl From<&str> of a name enum: the first variant named s, else Unknown(s).
from_str(names, s) ==
  IF \E i \in 1..Len(names) : names[i] = s
  THEN [name |-> CHOOSE i \in 1..Len(names) :
                   names[i] = s /\ \A j \in 1..(i - 1) : names[j] # s,
        unknown |-> <<>>]
  ELSE [name |-> 0, unknown |-> s]

Comma == 44

\* The String that ser_name_list builds: a comma goes before an item only
\* when the buffer is not empty.
RECURSIVE join_names(_, _)
join_names(buf, strs) ==
  IF Len(strs) = 0 THEN buf
  ELSE join_names((IF Len(buf) # 0 THEN buf \o <<Comma>> ELSE buf) \o Head(strs),
                  Tail(strs))

ser_name_list(strs) == serialize_bytes(join_names(<<>>, strs))

RECURSIVE serialize_value(_, _)
serialize_value(ty, v) ==
  CASE ty.k = "bool" -> serialize_bool(v)
    [] ty.k = "u8" -> serialize_u8(v)
    [] ty.k = "u32" -> serialize_u32(v)
    [] ty.k = "string" -> serialize_str(v)
    [] ty.k = "bytes" -> ser_bytes(v)
    [] ty.k = "name" -> serialize_str(as_ref(ty.names, v))
    [] ty.k = "name_list" ->
         ser_name_list([i \in 1..Len(v) |-> as_ref(ty.names, v[i])])
    [] ty.k = "inner" -> serialize_bytes(serialize_value(ty.of, v))
    [] ty.k = "struct" ->
         Concat([i \in 1..Len(ty.fields) |-> serialize_value(ty.fields[i], v[i])])
    [] ty.k = "enum" ->
         LET variant == ty.variants[v.variant] IN
         serialize_bytes(variant.name)
           \o Concat([i \in 1..Len(variant.fields) |->
                        serialize_value(variant.fields[i], v.fields[i])])

serialize(ty, val) == serialize_value(ty, val)

(***************************************************************************)
(* packet/decoder.rs: BinaryDecoder is [buf, pos].  A step of the decoder  *)
(* is [ok, val, d, err]: the value and the decoder afterwards, or the      *)
(* error.                                                                  *)
(***************************************************************************)
BinaryDecoder_new(data) == [buf |-> data, pos |-> 0]

DecodeOk(val, d) == [ok |-> TRUE, val |-> val, d |-> d, err |-> None]

DecodeErr(err, d) == [ok |-> FALSE, val |-> <<>>, d |-> d, err |-> err]

parse_u32(d) ==
  IF Len(d.buf) < d.pos + 4 THEN DecodeErr("UnexpectedEOF", d)
  ELSE DecodeOk(d.buf[d.pos + 1] * 16777216 + d.buf[d.pos + 2] * 65536
                  + d.buf[d.pos + 3] * 256 + d.buf[d.pos + 4],
                [d EXCEPT !.pos = @ + 4])

parse_u8(d) ==
  IF Len(d.buf) < d.pos + 1 THEN DecodeErr("UnexpectedEOF", d)
  ELSE DecodeOk(d.buf[d.pos + 1], [d EXCEPT !.pos = @ + 1])

parse_bytes(d) ==
  LET sized(l) ==
        IF ~l.ok THEN l
        ELSE IF Len(l.d.buf) < l.d.pos + l.val THEN DecodeErr("UnexpectedEOF", l.d)
        ELSE DecodeOk(SubSeq(l.d.buf, l.d.pos + 1, l.d.pos + l.val),
                      [l.d EXCEPT !.pos = @ + l.val])
  IN sized(parse_u32(d))

\* str::from_utf8 on the bytes the model uses, ASCII and 0xff: ASCII bytes
\* are valid, and 0xff is valid nowhere in UTF-8.
from_utf8_ok(bytes) == \A i \in 1..Len(bytes) : bytes[i] < 128

\* A bool decoder that takes every byte but 0 for true.
deserialize_bool_nonzero(d) ==
  LET as_bool(b) ==
        IF ~b.ok THEN b
        ELSE IF b.val = 0 THEN DecodeOk(FALSE, b.d)
        ELSE DecodeOk(TRUE, b.d)
  IN as_bool(parse_u8(d))

deserialize_bool(d) ==
  LET as_bool(b) ==
        IF ~b.ok THEN b
        ELSE IF b.val = 0 THEN DecodeOk(FALSE, b.d)
        ELSE IF b.val = 1 THEN DecodeOk(TRUE, b.d)
        ELSE DecodeErr("NonBoolean", b.d)
  IN as_bool(parse_u8(d))

deserialize_str(d) ==
  LET as_str(b) ==
        IF ~b.ok THEN b
        ELSE IF ~from_utf8_ok(b.val) THEN DecodeErr("Utf8Error", b.d)
        ELSE b
  IN as_str(parse_bytes(d))

de_bytes(d) == parse_bytes(d)

\* str::split(','): one piece more than there are commas.
RECURSIVE split(_, _)
split(piece, s) ==
  IF Len(s) = 0 THEN << piece >>
  ELSE IF Head(s) = Comma THEN << piece >> \o split(<<>>, Tail(s))
  ELSE split(Append(piece, Head(s)), Tail(s))

de_name_list(names, d) ==
  LET collect(pieces, rest) ==
        DecodeOk([i \in 1..Len(pieces) |-> from_str(names, pieces[i])], rest)
      as_list(s) == IF ~s.ok THEN s ELSE collect(split(<<>>, s.val), s.d)
  IN as_list(deserialize_str(d))

\* The variant whose name is s; 0 when there is none.
variant_index(variants, s) ==
  IF \E i \in 1..Len(variants) : variants[i].name = s
  THEN CHOOSE i \in 1..Len(variants) : variants[i].name = s
  ELSE 0

RECURSIVE deserialize_value(_, _)
RECURSIVE deserialize_tuple(_, _, _)
deserialize_tuple(tys, d, acc) ==
  LET then_rest(r) ==
        IF ~r.ok THEN r
        ELSE deserialize_tuple(Tail(tys), r.d, Append(acc, r.val))
  IN IF Len(tys) = 0 THEN DecodeOk(acc, d)
     ELSE then_rest(deserialize_value(Head(tys), d))

de_inner(ty, d) ==
  LET unwrap(b, r) == IF r.ok THEN DecodeOk(r.val, b.d) ELSE DecodeErr("Serde", b.d)
      as_inner(b) ==
        IF ~b.ok THEN b
        ELSE unwrap(b, deserialize_value(ty, BinaryDecoder_new(b.val)))
  IN as_inner(parse_bytes(d))

deserialize_enum(ty, d) ==
  LET with_fields(i, r) ==
        IF ~r.ok THEN r ELSE DecodeOk([variant |-> i, fields |-> r.val], r.d)
      with_variant(key, i) ==
        IF i = 0 THEN DecodeErr("Serde", key.d)
        ELSE with_fields(i, deserialize_tuple(ty.variants[i].fields, key.d, <<>>))
      with_key(key) ==
        IF ~key.ok THEN key
        ELSE with_variant(key, variant_index(ty.variants, key.val))
  IN with_key(deserialize_str(d))

deserialize_value(ty, d) ==
  LET as_name(s) ==
        IF ~s.ok THEN s ELSE DecodeOk(from_str(ty.names, s.val), s.d)
  IN CASE ty.k = "bool" -> deserialize_bool(d)
       [] ty.k = "u8" -> parse_u8(d)
       [] ty.k = "u32" -> parse_u32(d)
       [] ty.k = "string" -> deserialize_str(d)
       [] ty.k = "bytes" -> de_bytes(d)
       [] ty.k = "name" -> as_name(deserialize_str(d))
       [] ty.k = "name_list" -> de_name_list(ty.names, d)
       [] ty.k = "inner" -> de_inner(ty.of, d)
       [] ty.k = "struct" -> deserialize_tuple(ty.fields, d, <<>>)
       [] ty.k = "enum" -> deserialize_enum(ty, d)

deserialize(ty, bytes) == deserialize_value(ty, BinaryDecoder_new(bytes))

(***************************************************************************)
(* packet/mod.rs: the types of the codec's tests, and values of them.      *)
(***************************************************************************)
Bool == [k |-> "bool"]

U8 == [k |-> "u8"]

U32 == [k |-> "u32"]

String == [k |-> "string"]

Bytes == [k |-> "bytes"]

Inner(ty) == [k |-> "inner", of |-> ty]

Struct(fields) == [k |-> "struct", fields |-> fields]

Variant(name, fields) == [name |-> name, fields |-> fields]

Enum(variants) == [k |-> "enum", variants |-> variants]

Name(names) == [k |-> "name", names |-> names]

NameList(names) == [k |-> "name_list", names |-> names]

TestStruct == Struct(<<U32, U8>>)

OuterStruct == Struct(<<Bytes, Inner(TestStruct)>>)

\* "newtype", "tuple", "struct", "bytes-struct"
TestEnum ==
  Enum(<< Variant(<<110, 101, 119, 116, 121, 112, 101>>, <<U32>>),
          Variant(<<116, 117, 112, 108, 101>>, <<String, String>>),
          Variant(<<115, 116, 114, 117, 99, 116>>, <<U32, String>>),
          Variant(<<98, 121, 116, 101, 115, 45, 115, 116, 114, 117, 99, 116>>,
                  <<Bytes, Bool>>) >>)

EnumWrapper == Struct(<<Inner(TestEnum), Bool>>)

\* "test-name", "another-name"
NameEnum ==
  << <<116, 101, 115, 116, 45, 110, 97, 109, 101>>,
     <<97, 110, 111, 116, 104, 101, 114, 45, 110, 97, 109, 101>> >>

NameListWrapper == Struct(<<NameList(NameEnum), Bytes>>)

U8Values == {0, 30, 255}

\* 0, 0x0102, 0x010203, 0x7fffffff
U32Values == {0, 258, 66051, 2147483647}

\* "", "a", "bc", "x"
StringValues == {<<>>, <<97>>, <<98, 99>>, <<120>>}

\* b"", b"test", and bytes that are no UTF-8
BytesValues == {<<>>, <<116, 101, 115, 116>>, <<255, 0>>}

\* Unknown("unknown"), Unknown("x")
UnknownNames == {<<117, 110, 107, 110, 111, 119, 110>>, <<120>>}

NameValues(names) ==
  {[name |-> i, unknown |-> <<>>] : i \in 1..Len(names)}
    \cup {[name |-> 0, unknown |-> s] : s \in UnknownNames}

MaxNames == 2

NameListValues(names) ==
  UNION {[1..n -> NameValues(names)] : n \in 0..MaxNames}

\* codec: the value V of type ty, its serialization, and the result of
\* deserializing that.
CodecCase(ty, val) ==
  [mode |-> "value", ty |-> ty, val |-> val, bytes |-> <<>>,
   res |-> [ok |-> FALSE, val |-> <<>>, err |-> None]]

InitCodec ==
  /\ \/ \E v \in BOOLEAN : codec = CodecCase(Bool, v)
     \/ \E v \in U8Values : codec = CodecCase(U8, v)
     \/ \E v \in U32Values : codec = CodecCase(U32, v)
     \/ \E v \in StringValues : codec = CodecCase(String, v)
     \/ \E v \in BytesValues : codec = CodecCase(Bytes, v)
     \/ \E a \in U32Values, b \in U8Values : codec = CodecCase(TestStruct, <<a, b>>)
     \/ \E d \in BytesValues, a \in U32Values, b \in U8Values :
          codec = CodecCase(OuterStruct, <<d, <<a, b>>>>)
     \/ \E a \in U32Values :
          codec = CodecCase(TestEnum, [variant |-> 1, fields |-> <<a>>])
     \/ \E a \in StringValues, b \in StringValues :
          codec = CodecCase(TestEnum, [variant |-> 2, fields |-> <<a, b>>])
     \/ \E a \in U32Values, b \in StringValues, flag \in BOOLEAN :
          codec = CodecCase(EnumWrapper,
                            << [variant |-> 3, fields |-> <<a, b>>], flag >>)
     \/ \E a \in BytesValues, b \in BOOLEAN :
          codec = CodecCase(TestEnum, [variant |-> 4, fields |-> <<a, b>>])
     \/ \E v \in NameValues(NameEnum) : codec = CodecCase(Name(NameEnum), v)
     \/ \E e \in NameListValues(NameEnum), f \in BytesValues :
          codec = CodecCase(NameListWrapper, <<e, f>>)
  /\ frm = frmIdle /\ kex = kexIdle /\ drv = drvIdle

\* serialize(&V)
Serialize ==
  /\ codec.mode = "value"
  /\ codec' = [codec EXCEPT !.mode = "encoded",
                            !.bytes = serialize(codec.ty, codec.val)]
  /\ UNCHANGED <<frm, kex, drv>>

\* deserialize(bytes)
Deserialize ==
  /\ codec.mode = "encoded"
  /\ \E r \in {deserialize(codec.ty, codec.bytes)} :
       codec' = [codec EXCEPT !.mode = "decoded",
                              !.res = [ok |-> r.ok, val |-> r.val, err |-> r.err]]
  /\ UNCHANGED <<frm, kex, drv>>

NextCodec == Serialize \/ Deserialize

SpecCodec == InitCodec /\ [][NextCodec]_vars

\* C10: for every value V of a type the codec supports, the empty name list
\* included, deserialize(serialize(V)) = Ok(V).
C10_CodecRoundTrip ==
  codec.mode = "decoded" => codec.res.ok /\ codec.res.val = codec.val

(***************************************************************************)
(* packet/types.rs: the name enums and the messages of the key exchange.   *)
(***************************************************************************)
\* "ecdh-sha2-nistp256", "curve25519-sha256@libssh.org"
KexAlgorithm ==
  << <<101, 99, 100, 104, 45, 115, 104, 97, 50, 45, 110, 105, 115, 116, 112,
       50, 53, 54>>,
     <<99, 117, 114, 118, 101, 50, 53, 53, 49, 57, 45, 115, 104, 97, 50, 53,
       54, 64, 108, 105, 98, 115, 115, 104, 46, 111, 114, 103>> >>

\* "ssh-rsa"
ServerHostKeyAlgorithm == << <<115, 115, 104, 45, 114, 115, 97>> >>

\* "aes256-cbc", "aes256-ctr"
EncryptionAlgorithm ==
  << <<97, 101, 115, 50, 53, 54, 45, 99, 98, 99>>,
     <<97, 101, 115, 50, 53, 54, 45, 99, 116, 114>> >>

\* "hmac-sha2-256"
MacAlgorithm == << <<104, 109, 97, 99, 45, 115, 104, 97, 50, 45, 50, 53, 54>> >>

\* "none"
CompressionAlgorithm == << <<110, 111, 110, 101>> >>

\* "en"
Language == << <<101, 110>> >>

\* The variant i of a name enum.
Known(i) == [name |-> i, unknown |-> <<>>]

AlgorithmNegotiation ==
  Struct(<< NameList(KexAlgorithm), NameList(ServerHostKeyAlgorithm),
            NameList(EncryptionAlgorithm), NameList(EncryptionAlgorithm),
            NameList(MacAlgorithm), NameList(MacAlgorithm),
            NameList(CompressionAlgorithm), NameList(CompressionAlgorithm),
            NameList(Language), NameList(Language), Bool, U32 >>)

KexInit == Struct(<< Bytes >>)

\* SSH_RSA { e, n }
ServerKey == Enum(<< Variant(ServerHostKeyAlgorithm[1], <<Bytes, Bytes>>) >>)

\* SSH_RSA { signature }
Signature == Enum(<< Variant(ServerHostKeyAlgorithm[1], <<Bytes>>) >>)

KexReply == Struct(<< Inner(ServerKey), Bytes, Inner(Signature) >>)

(***************************************************************************)
(* The message numbers and serialize_msg, which handshake.rs imports from  *)
(* the crate root and from packet.                                         *)
(***************************************************************************)
SSH_MSG_KEXINIT == 20

SSH_MSG_NEWKEYS == 21

SSH_MSG_KEXDH_INIT == 30

SSH_MSG_KEXDH_REPLY == 31

\* The message number, then the serialized value.
serialize_msg(msg_key, ty, val) == << msg_key >> \o serialize(ty, val)

(***************************************************************************)
(* ring, as handshake.rs uses it.  A digest Context is the sequence of the *)
(* bytes it was updated with, and the digest of a Context is that sequence *)
(* (no two inputs collide).  The key agreement is Diffie-Hellman in the    *)
(* multiplicative group modulo GroupPrime; an RSA signature of h under the *)
(* modulus n is rsa_sign(n, h), and nothing else verifies.                 *)
(***************************************************************************)
Context_new == <<>>

Context_update(ctx, bytes) == ctx \o bytes

Context_finish(ctx) == ctx

GroupPrime == 251

GroupGenerator == 6

RECURSIVE PowMod(_, _)
PowMod(b, x) == IF x = 0 THEN 1 ELSE (b * PowMod(b, x - 1)) % GroupPrime

\* A public key or a shared secret of the group element s: two bytes.
KeyBytes(s) == << s, 255 - s >>

compute_public_key(priv_key) == KeyBytes(PowMod(GroupGenerator, priv_key))

\* agree_ephemeral: <<>> when the peer's public key is malformed, else
\* << the shared secret >>.
agree_ephemeral(priv_key, peer_public_key) ==
  IF Len(peer_public_key) # 2 \/ peer_public_key[1] \notin 1..(GroupPrime - 1)
       \/ peer_public_key[2] # 255 - peer_public_key[1]
  THEN <<>>
  ELSE << KeyBytes(PowMod(peer_public_key[1], priv_key)) >>

rsa_sign(n, h) == <<1>> \o serialize_bytes(n) \o h

verify_rsa(n, e, h, sgn) == sgn = rsa_sign(n, h)

into_mpint(buf) ==
  IF Len(buf) = 0 THEN <<>>
  ELSE IF buf[1] <= 127 THEN buf
  ELSE <<0>> \o buf

from_mpint(data) ==
  IF Len(data) > 0 /\ data[1] = 0 THEN Tail(data) ELSE data

(***************************************************************************)
(* key.rs: KeyBuilder.  A field is <<>> (None) or << bytes >>.             *)
(***************************************************************************)
\* update_digest! for a field that is set.
update_digest(ctx, field) ==
  Context_update(Context_update(ctx, hton(Len(field))), field)

\* The fields with f taken before e.
KeyBuilder_fields_f_before_e(kb) ==
  << kb.v_c, kb.v_s, kb.i_c, kb.i_s, kb.k_s, kb.f, kb.e, kb.k >>

KeyBuilder_fields(kb) == << kb.v_c, kb.v_s, kb.i_c, kb.i_s, kb.k_s, kb.e, kb.f, kb.k >>

RECURSIVE update_digests(_, _)
update_digests(ctx, fields) ==
  IF Len(fields) = 0 THEN << ctx >>
  ELSE IF Head(fields) = <<>> THEN <<>>
  ELSE update_digests(update_digest(ctx, Head(fields)[1]), Tail(fields))

\* KeyBuilder::digest: <<>> is Err(KeyBuilderError), else << the digest >>.
KeyBuilder_digest(kb, ctx) ==
  LET r == update_digests(ctx, KeyBuilder_fields(kb)) IN
  IF r = <<>> THEN <<>> ELSE << Context_finish(r[1]) >>

(***************************************************************************)
(* handshake.rs: ClientKeyExchange is one of                               *)
(*   [tag |-> "AlgorithmExchange", v_c, v_s, i_c, written, res]            *)
(*   [tag |-> "KeyExchange", neg, hash_ctx, priv_key, e, written, res]     *)
(*   [tag |-> "Agreed", ctx, new_key_sent].                                *)
(* An Option is <<>> (None) or << x >> (Some(x)).  A hook returns          *)
(* [st, err]: the state afterwards, and None for Ok(()), the error's name, *)
(* or "Panic".                                                             *)
(***************************************************************************)
\* EncryptionAlgorithm::AES256_GCM, a variant packet/types.rs does not list.
AES256_GCM == Known(3)

\* The NegotiatedAlgorithm that AlgorithmExchangeState::on_read builds.
NegotiatedAlgorithm ==
  [kex_algorithms |-> Known(2),
   server_host_key_algorithms |-> Known(1),
   encryption_algorithms_client_to_server |-> AES256_GCM,
   encryption_algorithms_server_to_client |-> AES256_GCM,
   mac_algorithms_client_to_server |-> Known(1),
   mac_algorithms_server_to_client |-> Known(1),
   compression_algorithms_client_to_server |-> Known(1),
   compression_algorithms_server_to_client |-> Known(1),
   languages_client_to_server |-> <<>>,
   languages_server_to_client |-> <<>>]

digest_bytes(ctx, bytes) ==
  Context_update(Context_update(ctx, hton(Len(bytes))), bytes)

AlgorithmExchangeState_new(v_c, v_s, i_c) ==
  [tag |-> "AlgorithmExchange", v_c |-> v_c, v_s |-> v_s, i_c |-> i_c,
   written |-> FALSE, res |-> <<>>]

\* keygen is the outcome of EphemeralPrivateKey::generate: <<>> for Err,
\* else << the private key >>.  [st, tag, val].
AlgorithmExchangeState_poll(st, keygen) ==
  IF st.res = <<>> THEN [st |-> st, tag |-> "NotReady", val |-> <<>>]
  ELSE IF keygen = <<>>
  THEN [st |-> [st EXCEPT !.res = <<>>], tag |-> "Err", val |-> "KexFailed"]
  ELSE [st |-> [st EXCEPT !.res = <<>>], tag |-> "Ready",
        val |-> [tag |-> "KeyExchange", neg |-> st.res[1].neg,
                 hash_ctx |-> st.res[1].ctx, priv_key |-> keygen,
                 e |-> compute_public_key(keygen[1]),
                 written |-> FALSE, res |-> <<>>]]

AlgorithmExchangeState_on_read(st, msg) ==
  LET parsed(neg) ==
        IF ~neg.ok THEN [st |-> st, err |-> "InvalidAlgorithmNegotiation"]
        ELSE [st |-> [st EXCEPT !.res =
                        << [neg |-> NegotiatedAlgorithm,
                            ctx |-> digest_bytes(digest_bytes(digest_bytes(
                                      digest_bytes(Context_new, st.v_c), st.v_s),
                                      st.i_c), msg)] >>],
              err |-> None]
  IN IF Len(msg) = 0 \/ msg[1] # SSH_MSG_KEXINIT
     THEN [st |-> st, err |-> "InvalidAlgorithmNegotiation"]
     ELSE IF Len(msg) < 17 THEN [st |-> st, err |-> "Panic"]
     ELSE parsed(deserialize(AlgorithmNegotiation, SubSeq(msg, 18, Len(msg))))

PacketWriteRequest(payload, flush) == [payload |-> payload, flush |-> flush]

AlgorithmExchangeState_wants_write(st) ==
  IF st.written THEN <<>> ELSE << PacketWriteRequest(st.i_c, TRUE) >>

KeyExchangeState_poll(st) ==
  IF ~st.written THEN [st |-> st, tag |-> "NotReady", val |-> <<>>]
  ELSE IF st.res = <<>> THEN [st |-> st, tag |-> "NotReady", val |-> <<>>]
  ELSE [st |-> [st EXCEPT !.res = <<>>], tag |-> "Ready",
        val |-> [tag |-> "Agreed",
                 ctx |-> << [neg_algorithm |-> st.neg, session_id |-> st.res[1]] >>,
                 new_key_sent |-> FALSE]]

\* The match on verify_rsa's result that ends on_read, with the session id
\* stored whatever the result is.
on_read_verified_unchecked(st, verified, hash) ==
  [st |-> [st EXCEPT !.res = << hash >>], err |-> None]

\* The match on verify_rsa's result that ends KeyExchangeState::on_read.
on_read_verified(st, verified, hash) ==
  IF ~verified THEN [st |-> st, err |-> "ServerKeyNotVerified"]
  ELSE [st |-> [st EXCEPT !.res = << hash >>], err |-> None]

\* KeyExchangeState::on_read.  agree_ephemeral takes self.priv_key by value:
\* the key is gone after the first call that reaches it, and a later call
\* that reaches it has no key to use; `moved` is what that call comes to,
\* "KexFailed" or "Panic".  Beside [st, err] the result tells the bytes
\* hashed (hashed) and K_S, f and K (kb), each an Option.
KeyExchangeState_on_read(st, msg, moved) ==
  LET none == [k_s |-> <<>>, f |-> <<>>, k |-> <<>>]
      failed(s, err) == [st |-> s, err |-> err, hashed |-> <<>>, kb |-> none]
      \* from self.hash_ctx.update(&k) to the end
      verify(st2, server_key, f, sgn, k_s, k) ==
        LET ctx2 == Context_update(st2.hash_ctx, k)
            hash == Context_finish(ctx2)
            n == from_mpint(server_key.fields[2])
            e == from_mpint(server_key.fields[1])
            done(r) == [st |-> r.st, err |-> r.err, hashed |-> << ctx2 >>,
                        kb |-> [k_s |-> << k_s >>, f |-> << f >>, k |-> << k >>]]
        IN done(on_read_verified([st2 EXCEPT !.hash_ctx = ctx2],
                                 verify_rsa(n, e, hash, sgn), hash))
      \* agreement::agree_ephemeral(self.priv_key, ...)
      agree(st1, server_key, f, sgn, k_s) ==
        LET agreed(st2, shared) ==
              IF shared = <<>> THEN failed(st2, "KexFailed")
              ELSE verify(st2, server_key, f, sgn, k_s, into_mpint(shared[1]))
        IN IF st.priv_key = <<>> THEN failed(st1, moved)
           ELSE agreed([st1 EXCEPT !.priv_key = <<>>],
                       agree_ephemeral(st.priv_key[1], f))
      \* the three hash_ctx.update calls on K_S, e and f
      hash_reply(server_key, f, sgn, k_s) ==
        agree([st EXCEPT !.hash_ctx =
                 Context_update(Context_update(Context_update(@, k_s), st.e), f)],
              server_key, f, sgn, k_s)
      parsed(reply) ==
        IF ~reply.ok THEN failed(st, "InvalidAlgorithmNegotiation")
        ELSE hash_reply(reply.val[1], reply.val[2], reply.val[3].fields[1],
                        serialize(ServerKey, reply.val[1]))
  IN IF Len(msg) = 0 \/ msg[1] # SSH_MSG_KEXDH_REPLY
     THEN failed(st, "InvalidAlgorithmNegotiation")
     ELSE parsed(deserialize(KexReply, Tail(msg)))

KeyExchangeState_wants_write(st) ==
  IF st.written THEN <<>>
  ELSE << PacketWriteRequest(serialize_msg(SSH_MSG_KEXINIT, KexInit, << st.e >>),
                             TRUE) >>

Agreed_poll(st) ==
  IF st.new_key_sent
  THEN IF st.ctx # <<>>
       THEN [st |-> [st EXCEPT !.ctx = <<>>], tag |-> "Ready", val |-> st.ctx[1]]
       ELSE [st |-> st, tag |-> "Panic", val |-> <<>>]
  ELSE [st |-> st, tag |-> "NotReady", val |-> <<>>]

Agreed_wants_write(st) == << PacketWriteRequest(<< SSH_MSG_NEWKEYS >>, TRUE) >>

\* impl Future for ClientKeyExchange: [st, tag, val].
ClientKeyExchange_poll(st, keygen) ==
  LET next_state(r) ==
        IF r.tag = "Ready" THEN [st |-> r.val, tag |-> "NotReady", val |-> <<>>]
        ELSE r
  IN CASE st.tag = "AlgorithmExchange" ->
            next_state(AlgorithmExchangeState_poll(st, keygen))
       [] st.tag = "KeyExchange" -> next_state(KeyExchangeState_poll(st))
       [] st.tag = "Agreed" -> Agreed_poll(st)

\* A KeyExchangeState that goes on asking for packets once it has its result.
wants_read_more(st) ==
  CASE st.tag = "AlgorithmExchange" -> st.res = <<>>
    [] st.tag = "KeyExchange" -> TRUE
    [] st.tag = "Agreed" -> FALSE

\* impl AsyncPacketState for ClientKeyExchange.
wants_read(st) ==
  CASE st.tag = "AlgorithmExchange" -> st.res = <<>>
    [] st.tag = "KeyExchange" -> st.res = <<>>
    [] st.tag = "Agreed" -> FALSE

on_read(st, msg, moved) ==
  LET no_hash(r) == [st |-> r.st, err |-> r.err, hashed |-> <<>>,
                     kb |-> [k_s |-> <<>>, f |-> <<>>, k |-> <<>>]]
  IN CASE st.tag = "AlgorithmExchange" ->
            no_hash(AlgorithmExchangeState_on_read(st, msg))
       [] st.tag = "KeyExchange" -> KeyExchangeState_on_read(st, msg, moved)
       [] st.tag = "Agreed" -> no_hash([st |-> st, err |-> "Panic"])

wants_write(st) ==
  CASE st.tag = "AlgorithmExchange" -> AlgorithmExchangeState_wants_write(st)
    [] st.tag = "KeyExchange" -> KeyExchangeState_wants_write(st)
    [] st.tag = "Agreed" -> Agreed_wants_write(st)

on_flush(st) ==
  CASE st.tag = "AlgorithmExchange" -> [st EXCEPT !.written = TRUE]
    [] st.tag = "KeyExchange" -> [st EXCEPT !.written = TRUE]
    [] st.tag = "Agreed" -> [st EXCEPT !.new_key_sent = TRUE]

(***************************************************************************)
(* The hooks of a ClientKeyExchange called one at a time, in any order,    *)
(* with the packets of a server.  kex holds the state machine (st) and     *)
(* what the peers know: the version lines, I_C and I_S, the lists the      *)
(* client and the server offered, and the outcome of the hooks called.     *)
(***************************************************************************)
\* "SSH-2.0-c"
V_C == <<83, 83, 72, 45, 50, 46, 48, 45, 99>>

\* "SSH-2.0-s"
V_S == <<83, 83, 72, 45, 50, 46, 48, 45, 115>>

\* An AlgorithmNegotiation that offers the key exchanges kex_list.
Negotiation(kex_list) ==
  << kex_list, << Known(1) >>, << Known(2) >>, << Known(2) >>, << Known(1) >>,
     << Known(1) >>, << Known(1) >>, << Known(1) >>, << Known(1) >>,
     << Known(1) >>, FALSE, 0 >>

CookieBytes == {167}

build_kexinit_payload(neg, cookie_byte) ==
  << SSH_MSG_KEXINIT >> \o [i \in 1..16 |-> cookie_byte]
    \o serialize(AlgorithmNegotiation, neg)

ClientKexLists == { << Known(2) >>, << Known(1), Known(2) >> }

ServerKexLists == { << Known(2) >>, << Known(1) >>, << Known(1), Known(2) >> }

PrivateKeys == {2, 5}

ServerPrivateKeys == {3}

\* The server's host key SSH_RSA { e, n }, both mpints.
HostKey == [variant |-> 1, fields |-> << <<1, 0, 1>>, <<0, 193, 7>> >>]

NoKeyParts == [k_s |-> <<>>, f |-> <<>>, k |-> <<>>]

\* The KeyBuilder of the eight inputs of this exchange.
ExchangeKeyBuilder(i_c, i_s, e, parts) ==
  [v_c |-> << V_C >>, v_s |-> << V_S >>, i_c |-> << i_c >>, i_s |-> i_s,
   k_s |-> parts.k_s, e |-> e, f |-> parts.f, k |-> parts.k]

\* The KEXDH_REPLY of the server with the private key s to the client's e.
\* signs says what the server signs: "exchange-hash" is the hash of the
\* eight inputs as KeyBuilder::digest hashes them, "client-hash" is the hash
\* of the bytes the client's hash_ctx comes to hold, "nothing" is a
\* signature of no hash at all.
ServerReply(s, signs, st) ==
  LET f == compute_public_key(s)
      k_s == serialize(ServerKey, HostKey)
      shared == agree_ephemeral(s, st.e)
      k == into_mpint(shared[1])
      n == from_mpint(HostKey.fields[2])
      exchange_hash ==
        KeyBuilder_digest(
          ExchangeKeyBuilder(kex.i_c, kex.i_s, << st.e >>,
                             [k_s |-> << k_s >>, f |-> << f >>, k |-> << k >>]),
          Context_new)[1]
      client_hash ==
        Context_finish(Context_update(Context_update(Context_update(
          Context_update(st.hash_ctx, k_s), st.e), f), k))
      sgn == CASE signs = "exchange-hash" -> rsa_sign(n, exchange_hash)
               [] signs = "client-hash" -> rsa_sign(n, client_hash)
               [] signs = "nothing" -> <<0>>
  IN serialize_msg(SSH_MSG_KEXDH_REPLY, KexReply,
                   << HostKey, f, [variant |-> 1, fields |-> << sgn >>] >>)

KexStart(client_kex, cookie_byte) ==
  LET i_c == build_kexinit_payload(Negotiation(client_kex), cookie_byte) IN
  [mode |-> "kex",
   st |-> AlgorithmExchangeState_new(V_C, V_S, i_c),
   i_c |-> i_c, client_neg |-> Negotiation(client_kex),
   i_s |-> <<>>, server_neg |-> <<>>, neg |-> <<>>,
   err |-> None, req |-> <<>>, req_of |-> "AlgorithmExchange",
   ready |-> <<>>, hashed |-> <<>>, parts |-> NoKeyParts, e |-> <<>>,
   bad_sig |-> <<>>, later_polls |-> 0, reads |-> 0, dead |-> FALSE]

InitKex ==
  /\ \E client_kex \in ClientKexLists, cookie_byte \in CookieBytes :
       kex = KexStart(client_kex, cookie_byte)
  /\ frm = frmIdle /\ codec = codecIdle /\ drv = drvIdle

MaxLaterPolls == 2

\* on_read is called MaxReads times at most: every KEXDH_REPLY read adds to
\* hash_ctx.
MaxReads == 3

CanRead == kex.mode = "kex" /\ ~kex.dead /\ kex.reads < MaxReads

\* on_read with the KEXINIT of a server that offers server_kex.
OnReadKexInit(server_kex, cookie_byte) ==
  /\ CanRead
  /\ \E msg \in {build_kexinit_payload(Negotiation(server_kex), cookie_byte)} :
     \E r \in {on_read(kex.st, msg, "Panic")} :
     \E accepted \in {kex.st.tag = "AlgorithmExchange" /\ r.err = None} :
       kex' = [kex EXCEPT !.st = r.st, !.err = r.err,
                          !.reads = @ + 1,
                          !.dead = r.err = "Panic",
                          !.i_s = IF accepted THEN << msg >> ELSE @,
                          !.server_neg =
                            IF accepted THEN << Negotiation(server_kex) >> ELSE @,
                          !.neg = IF accepted THEN << r.st.res[1].neg >> ELSE @]
  /\ UNCHANGED <<frm, codec, drv>>

\* on_read with a KEXDH_REPLY.
OnReadReply(s, signs, moved) ==
  /\ CanRead
  /\ kex.st.tag = "KeyExchange"
  /\ \E r \in {on_read(kex.st, ServerReply(s, signs, kex.st), moved)} :
     \E refused \in {r.hashed # <<>> /\ signs # "client-hash"} :
       kex' = [kex EXCEPT !.st = r.st, !.err = r.err,
                          !.reads = @ + 1,
                          !.dead = r.err = "Panic",
                          !.hashed = IF r.hashed # <<>> THEN r.hashed ELSE @,
                          !.parts = IF r.hashed # <<>> THEN r.kb ELSE @,
                          !.e = IF r.hashed # <<>> THEN << kex.st.e >> ELSE @,
                          !.bad_sig = IF refused THEN << r.err >> ELSE @]
  /\ UNCHANGED <<frm, codec, drv>>

\* Packets that are no KEXINIT and no KEXDH_REPLY: nothing, a lone message
\* number, NEWKEYS, a KEXDH_REPLY cut short, a KEXDH_REPLY whose f is no
\* public key.
OtherPackets ==
  { <<>>, << SSH_MSG_KEXINIT >>, << SSH_MSG_NEWKEYS >>,
    << SSH_MSG_KEXDH_REPLY, 0, 0 >>,
    serialize_msg(SSH_MSG_KEXDH_REPLY, KexReply,
                  << HostKey, <<0, 0>>, [variant |-> 1, fields |-> << <<0>> >>] >>) }

OnReadOther(msg, moved) ==
  /\ CanRead
  /\ \E r \in {on_read(kex.st, msg, moved)} :
       kex' = [kex EXCEPT !.st = r.st, !.err = r.err,
                          !.reads = @ + 1,
                          !.dead = r.err = "Panic"]
  /\ UNCHANGED <<frm, codec, drv>>

WantsWrite ==
  /\ kex.mode = "kex" /\ ~kex.dead
  /\ kex' = [kex EXCEPT !.err = None,
                        !.req = wants_write(kex.st), !.req_of = kex.st.tag]
  /\ UNCHANGED <<frm, codec, drv>>

OnFlush ==
  /\ kex.mode = "kex" /\ ~kex.dead
  /\ kex' = [kex EXCEPT !.st = on_flush(kex.st), !.err = None]
  /\ UNCHANGED <<frm, codec, drv>>

Poll(keygen) ==
  /\ kex.mode = "kex" /\ ~kex.dead
  /\ \E r \in {ClientKeyExchange_poll(kex.st, keygen)} :
       kex' = [kex EXCEPT !.st = r.st,
                          !.err = IF r.tag = "Err" THEN r.val
                                  ELSE IF r.tag = "Panic" THEN "Panic" ELSE None,
                          !.dead = r.tag = "Panic",
                          !.ready = IF r.tag = "Ready" THEN << r.val >> ELSE @,
                          !.later_polls =
                            IF kex.bad_sig # <<>> /\ @ < MaxLaterPolls THEN @ + 1 ELSE @]
  /\ UNCHANGED <<frm, codec, drv>>

MovedOutcomes == {"KexFailed", "Panic"}

NextKex ==
  \/ \E server_kex \in ServerKexLists, cookie_byte \in CookieBytes :
       OnReadKexInit(server_kex, cookie_byte)
  \/ \E s \in ServerPrivateKeys, signs \in {"exchange-hash", "client-hash", "nothing"},
        moved \in MovedOutcomes : OnReadReply(s, signs, moved)
  \/ \E msg \in OtherPackets, moved \in MovedOutcomes : OnReadOther(msg, moved)
  \/ WantsWrite
  \/ OnFlush
  \/ \E keygen \in {<<>>} \cup {<< k >> : k \in PrivateKeys} : Poll(keygen)

SpecKex == InitKex /\ [][NextKex]_vars

(***************************************************************************)
(* transport.rs: AsyncPacketTransport is [rd, rd_st, wr, wr_st, st].       *)
(* rd_st is <<>> (Idle) or <<pkt_len, pad_len>> (ReadPayload); wr_st is    *)
(* [tag |-> "Idle"], [tag |-> "WritePayload", req, pkt_len, pad_len] or    *)
(* [tag |-> "Flush"].                                                      *)
(***************************************************************************)
\* The bounds compute_pad_len draws pad_len between: <<>> when a checked
\* operation fails, else << [min_unit, min_pad_len, max_pad_len] >>.  The
\* lengths of the model stay far below u32::MAX and usize::MAX, so the cap
\* at u32::MAX and the checked additions change nothing.
\* A pad_len_range whose unit is 4 where the code takes 8.
pad_len_range_unit4(payload_len, blk_size) ==
  LET min_unit == Max(blk_size, 4)
      pkt_upperbound == payload_len + 5 + 255
      pkt_lowerbound == Max(payload_len + 5 + 4, Max(min_unit, 16))
      max_pkt_len == pkt_upperbound - (pkt_upperbound % min_unit)
      min_pkt_len == ((pkt_lowerbound + min_unit - 1) \div min_unit) * min_unit
      except_pad == payload_len + 5
      max_pad_len == max_pkt_len - except_pad
      min_pad_len == min_pkt_len - except_pad
  IN IF max_pad_len < 0 \/ min_pad_len < 0 THEN <<>>
     ELSE << [min_unit |-> min_unit, min_pad_len |-> min_pad_len,
              max_pad_len |-> max_pad_len] >>

pad_len_range(payload_len, blk_size) ==
  LET min_unit == Max(blk_size, 8)
      pkt_upperbound == payload_len + 5 + 255
      pkt_lowerbound == Max(payload_len + 5 + 4, Max(min_unit, 16))
      max_pkt_len == pkt_upperbound - (pkt_upperbound % min_unit)
      min_pkt_len == ((pkt_lowerbound + min_unit - 1) \div min_unit) * min_unit
      except_pad == payload_len + 5
      max_pad_len == max_pkt_len - except_pad
      min_pad_len == min_pkt_len - except_pad
  IN IF max_pad_len < 0 \/ min_pad_len < 0 THEN <<>>
     ELSE << [min_unit |-> min_unit, min_pad_len |-> min_pad_len,
              max_pad_len |-> max_pad_len] >>

\* A generator that always returns the low end of its range.
gen_range_low(payload_len, blk_size) == {0}

\* The values rng.gen_range may return in compute_pad_len.
gen_range(payload_len, blk_size) ==
  LET picks(r) ==
        IF r = <<>> \/ r[1].max_pad_len < r[1].min_pad_len THEN {0}
        ELSE 0..((r[1].max_pad_len - r[1].min_pad_len) \div r[1].min_unit)
  IN picks(pad_len_range(payload_len, blk_size))

\* compute_pad_len: <<>> is Err(()), else <<pkt_len, pad_len>>; pick is the
\* value rng.gen_range returns.
compute_pad_len(payload_len, blk_size, pick) ==
  LET lens(pad_len) == << pad_len + payload_len + 5, pad_len >>
      chosen(r) ==
        IF r = <<>> THEN <<>>
        ELSE IF 4 <= r[1].min_pad_len /\ r[1].min_pad_len <= r[1].max_pad_len
                  /\ r[1].max_pad_len <= 255
        THEN lens(pick * r[1].min_unit + r[1].min_pad_len)
        ELSE <<>>
  IN chosen(pad_len_range(payload_len, blk_size))

\* AsyncBufWriter::nb_write(n, fill): the n bytes that fill writes are handed
\* to the writer in one write.
nb_write(w, bytes, o1, o2) == nb_write_exact(w, bytes, o1, o2)

\* The bytes the closure of try_write puts into the reserved buffer.
packet_bytes(req, pkt_len, pad_len, fill_byte) ==
  hton(pkt_len) \o << pad_len >> \o req.payload
    \o [i \in 1..(pkt_len - 5 - Len(req.payload)) |-> fill_byte]

\* try_write: [t, err].
try_write(t, pick, o1, o2) ==
  LET ok(t1) == [t |-> t1, err |-> None]
      \* PacketWriteState::Idle
      padded(req, l) ==
        IF l = <<>> THEN [t |-> t, err |-> "Unit"]
        ELSE ok([t EXCEPT !.wr_st = [tag |-> "WritePayload", req |-> req,
                                     pkt_len |-> l[1], pad_len |-> l[2]]])
      requested(req) ==
        IF req = <<>> THEN ok(t)
        ELSE padded(req[1], compute_pad_len(Len(req[1].payload), 0, pick))
      \* PacketWriteState::WritePayload, after nb_write
      written(req, r) ==
        IF r.tag = "NotReady" THEN ok([t EXCEPT !.wr = r.w])
        ELSE IF req.flush
        THEN ok([t EXCEPT !.wr = r.w, !.wr_st = [tag |-> "Flush"]])
        ELSE ok([t EXCEPT !.wr = r.w, !.st = on_flush(t.st),
                          !.wr_st = [tag |-> "Idle"]])
      write_payload(req, pkt_len, pad_len) ==
        IF pkt_len # Len(req.payload) + 6 + pad_len
        THEN [t |-> t, err |-> "pkt_len does not match"]
        ELSE written(req, nb_write(t.wr, packet_bytes(req, pkt_len, pad_len, 0),
                                   o1, o2))
      \* PacketWriteState::Flush, after nb_flush
      flushed(r) ==
        IF r.tag = "Ready"
        THEN ok([t EXCEPT !.wr = r.w, !.st = on_flush(t.st),
                          !.wr_st = [tag |-> "Idle"]])
        ELSE ok([t EXCEPT !.wr = r.w])
  IN CASE t.wr_st.tag = "Idle" -> requested(wants_write(t.st))
       [] t.wr_st.tag = "WritePayload" ->
            write_payload(t.wr_st.req, t.wr_st.pkt_len, t.wr_st.pad_len)
       [] t.wr_st.tag = "Flush" -> flushed(nb_flush(t.wr, o1, o2))

\* A read pass that reads a header without asking wants_read.
try_read_unasked(t, o, moved) ==
  LET \* PacketReadState::Idle, after nb_read_exact(5)
      header(rd, pkt_len, pad_len) ==
        IF pkt_len < 16 \/ pkt_len < pad_len + 1
        THEN [t |-> [t EXCEPT !.rd = rd], err |-> "invalid_header"]
        ELSE [t |-> [t EXCEPT !.rd = rd, !.rd_st = <<pkt_len, pad_len>>],
              err |-> None]
      read_header(r) ==
        IF r.tag = "Err" THEN [t |-> [t EXCEPT !.rd = r.rd], err |-> r.val]
        ELSE IF r.tag = "NotReady" THEN [t |-> [t EXCEPT !.rd = r.rd], err |-> None]
        ELSE header(r.rd, ntoh(SubSeq(r.val, 1, 4)), r.val[5])
      \* PacketReadState::ReadPayload, after nb_read_exact(pkt_len - 1)
      delivered(rd, h) ==
        [t |-> [t EXCEPT !.rd = rd, !.rd_st = <<>>, !.st = h.st], err |-> h.err]
      read_payload(r) ==
        IF r.tag = "Err" THEN [t |-> [t EXCEPT !.rd = r.rd], err |-> r.val]
        ELSE IF r.tag = "NotReady" THEN [t |-> [t EXCEPT !.rd = r.rd], err |-> None]
        ELSE delivered(r.rd, on_read(t.st, r.val, moved))
  IN IF t.rd_st = <<>>
     THEN IF FALSE THEN [t |-> t, err |-> None]
          ELSE read_header(nb_read_exact(t.rd, 5, o))
     ELSE read_payload(nb_read_exact(t.rd, t.rd_st[1] - 1, o))

\* try_read: [t, err].
try_read(t, o, moved) ==
  LET \* PacketReadState::Idle, after nb_read_exact(5)
      header(rd, pkt_len, pad_len) ==
        IF pkt_len < 16 \/ pkt_len < pad_len + 1
        THEN [t |-> [t EXCEPT !.rd = rd], err |-> "invalid_header"]
        ELSE [t |-> [t EXCEPT !.rd = rd, !.rd_st = <<pkt_len, pad_len>>],
              err |-> None]
      read_header(r) ==
        IF r.tag = "Err" THEN [t |-> [t EXCEPT !.rd = r.rd], err |-> r.val]
        ELSE IF r.tag = "NotReady" THEN [t |-> [t EXCEPT !.rd = r.rd], err |-> None]
        ELSE header(r.rd, ntoh(SubSeq(r.val, 1, 4)), r.val[5])
      \* PacketReadState::ReadPayload, after nb_read_exact(pkt_len - 1)
      delivered(rd, h) ==
        [t |-> [t EXCEPT !.rd = rd, !.rd_st = <<>>, !.st = h.st], err |-> h.err]
      read_payload(r) ==
        IF r.tag = "Err" THEN [t |-> [t EXCEPT !.rd = r.rd], err |-> r.val]
        ELSE IF r.tag = "NotReady" THEN [t |-> [t EXCEPT !.rd = r.rd], err |-> None]
        ELSE delivered(r.rd, on_read(t.st, r.val, moved))
  IN IF t.rd_st = <<>>
     THEN IF ~wants_read(t.st) THEN [t |-> t, err |-> None]
          ELSE read_header(nb_read_exact(t.rd, 5, o))
     ELSE read_payload(nb_read_exact(t.rd, t.rd_st[1] - 1, o))

\* impl Future for AsyncPacketTransport: [t, tag, val].
AsyncPacketTransport_poll(t, pick, o1, o2, o, moved, keygen) ==
  LET polled(t2, p) == [t |-> [t2 EXCEPT !.st = p.st], tag |-> p.tag, val |-> p.val]
      read(r) ==
        IF r.err # None THEN [t |-> r.t, tag |-> "Err", val |-> r.err]
        ELSE polled(r.t, ClientKeyExchange_poll(r.t.st, keygen))
      wrote(w) ==
        IF w.err # None THEN [t |-> w.t, tag |-> "Err", val |-> w.err]
        ELSE read(try_read(w.t, o, moved))
  IN wrote(try_write(t, pick, o1, o2))

(***************************************************************************)
(* The driver over a ClientKeyExchange, polled until it returns Ready or   *)
(* an error, against a server that sends a valid KEXINIT and a valid       *)
(* KEXDH_REPLY signed over the exchange hash.  drv.t is the transport,     *)
(* drv.res and drv.val the result of the last poll, drv.keygen the key the *)
(* client's key generation yields.                                         *)
(***************************************************************************)
\* The packet of a payload as a peer frames it: packet_length counts the
\* padding_length byte, the payload and the padding, and the padding is the
\* least of 4 bytes or more that brings the packet to a multiple of 8.
PeerPacket(payload) ==
  LET pad_len == compute_pad_len(Len(payload), 0, 0)[2] IN
  hton(Len(payload) + pad_len + 1) \o << pad_len >> \o payload \o Zeros(pad_len)

\* What a valid server sends to the client that offers client_kex and owns
\* the private key c: its KEXINIT, then its KEXDH_REPLY.
ValidServerStream(client_kex, server_kex, c, s) ==
  LET i_c == build_kexinit_payload(Negotiation(client_kex), 167)
      i_s == build_kexinit_payload(Negotiation(server_kex), 167)
      e == compute_public_key(c)
      f == compute_public_key(s)
      k_s == serialize(ServerKey, HostKey)
      k == into_mpint(agree_ephemeral(s, e)[1])
      h == KeyBuilder_digest(
             ExchangeKeyBuilder(i_c, << i_s >>, << e >>,
                                [k_s |-> << k_s >>, f |-> << f >>, k |-> << k >>]),
             Context_new)[1]
      sgn == rsa_sign(from_mpint(HostKey.fields[2]), h)
  IN PeerPacket(i_s)
       \o PeerPacket(serialize_msg(SSH_MSG_KEXDH_REPLY, KexReply,
            << HostKey, f, [variant |-> 1, fields |-> << sgn >>] >>))

DriverCapacities == {16, 512}

DriverStart(client_kex, server_kex, c, s, rcap, wcap) ==
  [mode |-> "drv",
   t |-> [rd |-> AsyncBufReader_with_capacity(rcap,
                   [data |-> ValidServerStream(client_kex, server_kex, c, s),
                    eof |-> FALSE]),
          rd_st |-> <<>>,
          wr |-> AsyncBufWriter_with_capacity(wcap, [data |-> <<>>]),
          wr_st |-> [tag |-> "Idle"],
          st |-> AlgorithmExchangeState_new(V_C, V_S,
                   build_kexinit_payload(Negotiation(client_kex), 167))],
   keygen |-> << c >>, res |-> "NotReady", val |-> None, polls |-> 0]

InitDriver ==
  /\ \E client_kex \in ClientKexLists, c \in PrivateKeys, s \in ServerPrivateKeys,
        rcap \in DriverCapacities, wcap \in DriverCapacities :
       drv = DriverStart(client_kex, << Known(2) >>, c, s, rcap, wcap)
  /\ frm = frmIdle /\ codec = codecIdle /\ kex = kexIdle

\* The payload wants_write asks to send, <<>> when it asks for nothing.
wanted_payload(st) ==
  LET payload_of(req) == IF req = <<>> THEN <<>> ELSE req[1].payload IN
  payload_of(wants_write(st))

\* One poll of the future; a future is not polled again once it has
\* returned Ready or an error.  ow is the request every write and flush of
\* the sink meets in this poll, o the request of its read of the source.
DriverPoll(pick, ow, o, moved) ==
  /\ drv.mode = "drv" /\ drv.res = "NotReady"
  /\ pick \in gen_range(Len(wanted_payload(drv.t.st)), 0)
  /\ \E r \in {AsyncPacketTransport_poll(drv.t, pick, ow, ow, o, moved, drv.keygen)} :
       drv' = [drv EXCEPT !.t = r.t, !.res = r.tag,
                          !.val = IF r.tag = "Err" THEN r.val ELSE None,
                          !.polls = @ + 1]
  /\ UNCHANGED <<frm, codec, kex>>

MaxPick == 31

NextDriver ==
  \E pick \in 0..MaxPick, ow \in {WouldBlock, Everything},
     o \in {WouldBlock, 3, 5, Everything}, moved \in MovedOutcomes :
    DriverPoll(pick, ow, o, moved)

SpecDriver == InitDriver /\ [][NextDriver]_vars

\* C2: against a valid server, however often the source and the sink are
\* ready, no poll of the driver returns an error.
C2_NeverAnError == drv.mode = "drv" => drv.res # "Err"


FirstCommon(c, s) ==
  LET common == {i \in 1..Len(c) : \E j \in 1..Len(s) : s[j] = c[i]} IN
  IF common = {} THEN <<>>
  ELSE << c[CHOOSE i \in common : \A j \in common : i <= j] >>

\* The algorithm a NegotiatedAlgorithm holds for the i-th name list of
\* AlgorithmNegotiation.
NegotiatedCategory(neg, i) ==
  CASE i = 1 -> neg.kex_algorithms
    [] i = 2 -> neg.server_host_key_algorithms
    [] i = 3 -> neg.encryption_algorithms_client_to_server
    [] i = 4 -> neg.encryption_algorithms_server_to_client
    [] i = 5 -> neg.mac_algorithms_client_to_server
    [] i = 6 -> neg.mac_algorithms_server_to_client
    [] i = 7 -> neg.compression_algorithms_client_to_server
    [] i = 8 -> neg.compression_algorithms_server_to_client

\* C5: when on_read has accepted the server's KEXINIT, the two lists of every
\* algorithm category have a common entry and the negotiated algorithm is the
\* first entry of the client's list that the server's list holds.
C5_FirstCommonAlgorithm ==
  kex.mode = "kex" /\ kex.neg # <<>> =>
    \A i \in 1..8 :
      FirstCommon(kex.client_neg[i], kex.server_neg[1][i])
        = << NegotiatedCategory(kex.neg[1], i) >>

\* C6: the packet KeyExchangeState asks to write is the byte 30
\* (SSH_MSG_KEXDH_INIT) followed by e as an SSH string.
C6_KexdhInitPacket ==
  kex.mode = "kex" /\ kex.req # <<>> /\ kex.req_of = "KeyExchange"
    /\ kex.st.tag = "KeyExchange" =>
      kex.req[1].payload = << SSH_MSG_KEXDH_INIT >> \o serialize_bytes(kex.st.e)

\* C7: the hash KeyExchangeState::on_read computes is the hash of V_C, V_S,
\* I_C, I_S, K_S, e, f, K, each with its length before it: the digest
\* KeyBuilder::digest gives for the same eight inputs.
C7_ExchangeHash ==
  kex.mode = "kex" /\ kex.hashed # <<>> =>
    << Context_finish(kex.hashed[1]) >>
      = KeyBuilder_digest(ExchangeKeyBuilder(kex.i_c, kex.i_s, kex.e, kex.parts),
                          Context_new)

(***************************************************************************)
(* async/bufreader.rs under test: successive nb_read_exact calls on one    *)
(* AsyncBufReader.  frm.rd is the reader, frm.stream the bytes the source  *)
(* started with, frm.out the slices the Ready results returned, frm.last   *)
(* the last call (its n, its result, and the unread bytes before it) and   *)
(* frm.waits the number of NotReady results so far.                        *)
(***************************************************************************)
ExactLen == 6

MaxExact == 3

ExactCapacities == {1, 4}

ExactRequests == {WouldBlock, 2, Everything}

NoRead == -2

\* A stream whose bytes tell their own offsets apart.
ExactBytes(n) == [i \in 1..n |-> 64 + i]

InitExact ==
  /\ \E len \in {ExactLen}, eof \in BOOLEAN, cap0 \in ExactCapacities :
       frm = [mode |-> "exact",
              rd |-> AsyncBufReader_with_capacity(
                       cap0, [data |-> ExactBytes(len), eof |-> eof]),
              stream |-> ExactBytes(len), out |-> <<>>, waits |-> 0,
              last |-> [n |-> 0, tag |-> "None", val |-> <<>>, before |-> <<>>,
                        rsize |-> NoRead]]
  /\ codec = codecIdle /\ kex = kexIdle /\ drv = drvIdle

\* What the source's read returned in a call of nb_read_exact(n): NoRead
\* when the call made no read, WouldBlock, 0 at the end of the stream, else
\* the number of bytes read.
source_read(rd, n, o) ==
  IF data_size(rd.buf) >= n THEN NoRead
  ELSE inner_read(rd.inner, get_mut_len(reserve(rd.buf, n)), o)[3]

\* One call of AsyncBufReader::nb_read_exact(n).
ReadExact(n, o) ==
  /\ frm.mode = "exact"
  /\ frm.last.tag # "Err"
  /\ Len(frm.out) < ExactLen
  /\ \E r \in {nb_read_exact(frm.rd, n, o)} :
       frm' = [frm EXCEPT !.rd = r.rd,
                          !.out = IF r.tag = "Ready" THEN Append(@, r.val) ELSE @,
                          !.waits = IF r.tag = "NotReady" THEN Min(@ + 1, 2) ELSE @,
                          !.last = [n |-> n, tag |-> r.tag, val |-> r.val,
                                    before |-> unread(frm.rd),
                                    rsize |-> source_read(frm.rd, n, o)]]
  /\ UNCHANGED <<codec, kex, drv>>

NextExact == \E n \in 0..MaxExact, o \in ExactRequests : ReadExact(n, o)

SpecExact == InitExact /\ [][NextExact]_vars

\* C11: the slices returned by the Ready results of nb_read_exact, followed
\* by the bytes not yet handed out, are the source stream (so the slices
\* concatenated are a prefix of it); a Ready result holds exactly n bytes
\* and consumes exactly those, and a NotReady result consumes nothing.
C11_ReadExactPrefix ==
  frm.mode = "exact" =>
    /\ Concat(frm.out) \o unread(frm.rd) = frm.stream
    /\ IsPrefix(Concat(frm.out), frm.stream)
    /\ frm.last.tag = "Ready" =>
         /\ Len(frm.last.val) = frm.last.n
         /\ frm.last.before = frm.last.val \o unread(frm.rd)
    /\ frm.last.tag = "NotReady" => unread(frm.rd) = frm.last.before

\* A second slice was returned after a NotReady result, with bytes that
\* arrived beyond n still in the buffer.
C11_Witness ==
  /\ frm.mode = "exact"
  /\ Len(frm.out) >= 2
  /\ frm.waits >= 1
  /\ frm.last.tag = "Ready" /\ frm.last.n >= 1
  /\ data_size(frm.rd.buf) >= 1

(***************************************************************************)
(* async/bufwriter.rs under test: nb_write_exact, nb_flush_buf and         *)
(* nb_flush called in any order on one AsyncBufWriter.  frm.wr is the      *)
(* writer, frm.accepted the inputs of the nb_write_exact calls that        *)
(* returned Ready, concatenated, frm.count their number, frm.last the last *)
(* call (its name, its result, and the sink's and the buffer's bytes       *)
(* before it), frm.waits the number of NotReady results of                *)
(* nb_write_exact so far and frm.drained whether an nb_flush_buf call has  *)
(* drained part of the buffer.  The sink counts the writes and the         *)
(* successful flushes it receives during each call.                        *)
(***************************************************************************)
MaxWrites == 3

MaxInput == 3

ExactWriterCapacities == {2, 4}

SinkRequests == {WouldBlock, 1, Everything}

\* The bytes the writer holds or has passed on.
written(w) == w.inner.data \o get_ref(w.buf)

\* The input of the k-th accepted write, of length n.
InputBytes(k, n) == [i \in 1..n |-> 16 * k + i]

\* The writer at the start of a call: the sink counts the calls it receives
\* during this call.
at_call(w) == [w EXCEPT !.inner.writes = 0, !.inner.flushes = 0]

InitWriter ==
  /\ \E cap0 \in ExactWriterCapacities :
       frm = [mode |-> "writer",
              wr |-> AsyncBufWriter_with_capacity(
                       cap0, [data |-> <<>>, writes |-> 0, flushes |-> 0]),
              accepted |-> <<>>, count |-> 0, waits |-> 0, drained |-> 0,
              last |-> [op |-> "None", tag |-> "None", before |-> <<>>]]
  /\ codec = codecIdle /\ kex = kexIdle /\ drv = drvIdle

\* One call of AsyncBufWriter::nb_write_exact with an input of n bytes.
WriteExact(n, o1, o2) ==
  /\ frm.mode = "writer"
  /\ frm.count < MaxWrites
  /\ \E r \in {nb_write_exact(at_call(frm.wr), InputBytes(frm.count + 1, n), o1, o2)} :
       frm' = [frm EXCEPT !.wr = r.w,
                          !.accepted = IF r.tag = "Ready"
                                       THEN @ \o InputBytes(frm.count + 1, n) ELSE @,
                          !.count = IF r.tag = "Ready" THEN @ + 1 ELSE @,
                          !.waits = IF r.tag = "NotReady" THEN Min(@ + 1, 2) ELSE @,
                          !.last = [op |-> "nb_write_exact", tag |-> r.tag,
                                    before |-> written(frm.wr)]]
  /\ UNCHANGED <<codec, kex, drv>>

\* One call of AsyncBufWriter::nb_flush_buf.
FlushBuf(o) ==
  /\ frm.mode = "writer"
  /\ \E r \in {nb_flush_buf(at_call(frm.wr), o)} :
       frm' = [frm EXCEPT !.wr = r.w,
                          !.drained = IF r.tag = "NotReady" /\ r.w.inner.data # frm.wr.inner.data
                                      THEN 1 ELSE @,
                          !.last = [op |-> "nb_flush_buf", tag |-> r.tag,
                                    before |-> written(frm.wr)]]
  /\ UNCHANGED <<codec, kex, drv>>

\* One call of AsyncBufWriter::nb_flush.
Flush(o1, o2) ==
  /\ frm.mode = "writer"
  /\ \E r \in {nb_flush(at_call(frm.wr), o1, o2)} :
       frm' = [frm EXCEPT !.wr = r.w,
                          !.last = [op |-> "nb_flush", tag |-> r.tag,
                                    before |-> written(frm.wr)]]
  /\ UNCHANGED <<codec, kex, drv>>

NextWriter ==
  \/ \E n \in 0..MaxInput, o1 \in SinkRequests, o2 \in SinkRequests : WriteExact(n, o1, o2)
  \/ \E o \in SinkRequests : FlushBuf(o)
  \/ \E o1 \in SinkRequests, o2 \in SinkRequests : Flush(o1, o2)

SpecWriter == InitWriter /\ [][NextWriter]_vars

\* C12: the bytes the sink received followed by the bytes still in the
\* buffer are the inputs of the nb_write_exact calls that returned Ready, in
\* call order; a call that returned NotReady, and every flush, left those
\* bytes as they were.
C12_WriteExactOrder ==
  frm.mode = "writer" =>
    /\ written(frm.wr) = frm.accepted
    /\ frm.last.tag = "NotReady" \/ frm.last.op \in {"nb_flush_buf", "nb_flush"} =>
         written(frm.wr) = frm.last.before

\* After a NotReady result, a later nb_write_exact returned Ready with part
\* of the accepted bytes at the sink and the rest in the buffer.
C12_Witness ==
  /\ frm.mode = "writer"
  /\ frm.waits >= 1
  /\ frm.count >= 2
  /\ frm.last.op = "nb_write_exact" /\ frm.last.tag = "Ready"
  /\ Len(frm.wr.inner.data) >= 1
  /\ ~is_empty(frm.wr.buf)

(***************************************************************************)
(* async/buf.rs under test: the operations of one AsyncBuf called in any   *)
(* order.  frm.b is the buffer, frm.cap0 the capacity it was built with    *)
(* and frm.last the last call: its name, its argument (a count, or the     *)
(* length of the bytes written) and data_size() before it; for try_reserve *)
(* and consume also the buffer before the call, and for try_reserve the    *)
(* bool returned.                                                          *)
(***************************************************************************)
MaxCapacity == 4

MaxArg == 3

BufCapacities == {0, 1, 2}

\* The bytes handed to try_write_all and write_all.
BufBytes(n) == [i \in 1..n |-> 7]

BufCalled(b, op, n) ==
  [frm EXCEPT !.b = b, !.last = [op |-> op, n |-> n, size |-> data_size(frm.b)]]

InitBuf ==
  /\ \E cap0 \in BufCapacities :
       frm = [mode |-> "buf", b |-> with_capacity(cap0), cap0 |-> cap0,
              last |-> [op |-> "with_capacity", n |-> cap0, size |-> 0]]
  /\ codec = codecIdle /\ kex = kexIdle /\ drv = drvIdle

TryReserve(n) ==
  /\ frm.mode = "buf"
  /\ \E r \in {try_reserve(frm.b, n)} :
       frm' = [BufCalled(r[1], "try_reserve", n) EXCEPT
                 !.last = [op |-> "try_reserve", n |-> n, size |-> data_size(frm.b),
                           before |-> frm.b, ret |-> r[2]]]
  /\ UNCHANGED <<codec, kex, drv>>

\* reserve returns unless its doubling loop starts from capacity 0.
Reserve(n) ==
  /\ frm.mode = "buf"
  /\ ~reserve_diverges(frm.b, n)
  /\ \E b \in {reserve(frm.b, n)} :
       /\ capacity(b) <= MaxCapacity
       /\ frm' = BufCalled(b, "reserve", n)
  /\ UNCHANGED <<codec, kex, drv>>

Fill(n) ==
  /\ frm.mode = "buf"
  /\ frm' = BufCalled(fill(frm.b, n), "fill", n)
  /\ UNCHANGED <<codec, kex, drv>>

Consume(n) ==
  /\ frm.mode = "buf"
  /\ frm' = [BufCalled(consume(frm.b, n), "consume", n) EXCEPT
                !.last = [op |-> "consume", n |-> n, size |-> data_size(frm.b),
                          before |-> frm.b]]
  /\ UNCHANGED <<codec, kex, drv>>

\* consume_and_get returns unless it panics.
ConsumeAndGet(n) ==
  /\ frm.mode = "buf"
  /\ ~consume_and_get_panics(frm.b, n)
  /\ \E r \in {consume_and_get(frm.b, n)} : frm' = BufCalled(r[1], "consume_and_get", n)
  /\ UNCHANGED <<codec, kex, drv>>

TryWriteAll(n) ==
  /\ frm.mode = "buf"
  /\ \E r \in {try_write_all(frm.b, BufBytes(n))} :
       frm' = BufCalled(r[1], "try_write_all", n)
  /\ UNCHANGED <<codec, kex, drv>>

WriteAll(n) ==
  /\ frm.mode = "buf"
  /\ ~reserve_diverges(frm.b, n)
  /\ \E b \in {write_all(frm.b, BufBytes(n))} :
       /\ capacity(b) <= MaxCapacity
       /\ frm' = BufCalled(b, "write_all", n)
  /\ UNCHANGED <<codec, kex, drv>>

NextBuf ==
  \E n \in 0..MaxArg :
    \/ TryReserve(n)
    \/ Reserve(n)
    \/ Fill(n)
    \/ Consume(n)
    \/ ConsumeAndGet(n)
    \/ TryWriteAll(n)
    \/ WriteAll(n)

SpecBuf == InitBuf /\ [][NextBuf]_vars

\* C13: after any sequence of AsyncBuf operations 0 <= pos <= cap <=
\* capacity, data_size() = cap - pos is the length of get_ref(), and an
\* empty buffer has both cursors at zero, in particular after
\* consume(data_size()).
C13_CursorInvariant ==
  frm.mode = "buf" =>
    /\ 0 <= frm.b.pos /\ frm.b.pos <= frm.b.cap /\ frm.b.cap <= capacity(frm.b)
    /\ data_size(frm.b) = frm.b.cap - frm.b.pos
    /\ Len(get_ref(frm.b)) = data_size(frm.b)
    /\ is_empty(frm.b) => frm.b.pos = 0 /\ frm.b.cap = 0
    /\ frm.last.op = "consume" /\ frm.last.n = frm.last.size =>
         frm.b.pos = 0 /\ frm.b.cap = 0

\* consume(data_size()) emptied a buffer that had grown and held data.
C13_Witness ==
  /\ frm.mode = "buf"
  /\ capacity(frm.b) > frm.cap0
  /\ frm.last.op = "consume" /\ frm.last.n = frm.last.size /\ frm.last.n >= 1
  /\ frm.b.pos = 0 /\ frm.b.cap = 0

\* C35: try_reserve(n) leaves the capacity and get_ref() as they were; it
\* returns true exactly when n bytes are free at the tail or the data is no
\* larger than the head slack and fits with n; when it had to slide, the
\* data starts at offset 0; whenever it returns true n bytes are free; when
\* it returns false the cursors are unchanged.
C35_TryReserve ==
  frm.mode = "buf" /\ frm.last.op = "try_reserve" =>
    /\ capacity(frm.b) = capacity(frm.last.before)
    /\ get_ref(frm.b) = get_ref(frm.last.before)
    /\ frm.last.ret <=>
         \/ frm.last.before.cap + frm.last.n <= capacity(frm.last.before)
         \/ /\ data_size(frm.last.before) <= frm.last.before.pos
            /\ data_size(frm.last.before) + frm.last.n <= capacity(frm.last.before)
    /\ frm.last.ret => get_mut_len(frm.b) >= frm.last.n
    /\ frm.last.ret /\ frm.last.before.cap + frm.last.n > capacity(frm.last.before) =>
         frm.b.pos = 0 /\ frm.b.cap = data_size(frm.last.before)
    /\ ~frm.last.ret =>
         frm.b.pos = frm.last.before.pos /\ frm.b.cap = frm.last.before.cap

\* try_reserve slid data that holds both a written and a filled byte.
C35_Witness ==
  /\ frm.mode = "buf" /\ frm.last.op = "try_reserve"
  /\ frm.last.ret
  /\ frm.last.before.pos > 0
  /\ frm.b.pos = 0
  /\ \E i, j \in 1..Len(get_ref(frm.b)) : get_ref(frm.b)[i] # get_ref(frm.b)[j]

\* try_reserve refused: the data is larger than the head slack.
C35_WitnessFalse ==
  /\ frm.mode = "buf" /\ frm.last.op = "try_reserve"
  /\ ~frm.last.ret
  /\ data_size(frm.last.before) > frm.last.before.pos
  /\ data_size(frm.last.before) + frm.last.n <= capacity(frm.last.before)

\* C36: a consume(n) or consume_and_get(n) that returned with n larger than
\* data_size() left pos and cap as they were.
C36_NoOverConsume ==
  frm.mode = "buf" /\ frm.last.op \in {"consume", "consume_and_get"}
    /\ frm.last.n > frm.last.size =>
      frm.b.pos = frm.last.before.pos /\ frm.b.cap = frm.last.before.cap

(***************************************************************************)
(* transport.rs: compute_pad_len under test.  frm.payload_len and          *)
(* frm.blk_size are its arguments, frm.pick the value rng.gen_range        *)
(* returned and frm.res the result: <<>> before the call, else             *)
(* << compute_pad_len(..) >>.                                              *)
(***************************************************************************)
MaxPayloadLen == 256

BlockSizes == {0, 8, 16, 32, 64, 256}

InitPad ==
  /\ \E payload_len \in 0..MaxPayloadLen, blk_size \in BlockSizes :
       frm = [mode |-> "pad", payload_len |-> payload_len, blk_size |-> blk_size,
              pick |-> 0, res |-> <<>>]
  /\ codec = codecIdle /\ kex = kexIdle /\ drv = drvIdle

\* One call of compute_pad_len(payload_len, blk_size, rng).
ComputePadLen(pick) ==
  /\ frm.mode = "pad"
  /\ frm.res = <<>>
  /\ pick \in gen_range(frm.payload_len, frm.blk_size)
  /\ frm' = [frm EXCEPT !.pick = pick,
                        !.res = << compute_pad_len(frm.payload_len, frm.blk_size, pick) >>]
  /\ UNCHANGED <<codec, kex, drv>>

NextPad == \E pick \in 0..MaxPick : ComputePadLen(pick)

SpecPad == InitPad /\ [][NextPad]_vars

\* C14: for every payload and every block size B >= 8, compute_pad_len
\* succeeds with packet_length a multiple of B, padding_length in 4..255 and
\* packet_length = len(P) + 1 + padding_length.
C14_PacketLength ==
  frm.mode = "pad" /\ frm.blk_size >= 8 /\ frm.res # <<>> =>
    /\ frm.res[1] # <<>>
    /\ frm.res[1][1] % frm.blk_size = 0
    /\ frm.res[1][2] \in 4..255
    /\ frm.res[1][1] = frm.payload_len + 1 + frm.res[1][2]

\* C15: for block size 0 and every payload length from 1 to 256,
\* compute_pad_len returns Ok((pkt_len, pad_len)) with pkt_len a multiple of
\* 8, pkt_len = pad_len + payload_len + 5 and pad_len >= 4; for payload
\* length 4 the pad_len is at least 7, and 7 is what the smallest pick gives.
C15_BlockSizeZero ==
  frm.mode = "pad" /\ frm.blk_size = 0 /\ frm.payload_len \in 1..256
    /\ frm.res # <<>> =>
      /\ frm.res[1] # <<>>
      /\ frm.res[1][1] % 8 = 0
      /\ frm.res[1][1] = frm.res[1][2] + frm.payload_len + 5
      /\ frm.res[1][2] >= 4
      /\ frm.payload_len = 4 =>
           /\ frm.res[1][2] >= 7
           /\ frm.pick = 0 => frm.res[1][2] = 7

\* compute_pad_len(4, 0, rng) returned (16, 7).
C15_Witness ==
  /\ frm.mode = "pad" /\ frm.blk_size = 0 /\ frm.payload_len = 4
  /\ frm.res = << <<16, 7>> >>

\* The padding lengths the packet format admits for a payload and a block
\* size.
admissible_pad_lens(payload_len, blk_size) ==
  { p \in 4..255 : /\ (5 + payload_len + p) % Max(blk_size, 8) = 0
                   /\ 5 + payload_len + p >= 16 }

\* The pad_len values compute_pad_len returns over all the values
\* gen_range may give it.
returned_pad_lens(payload_len, blk_size) ==
  { compute_pad_len(payload_len, blk_size, pick)[2] :
      pick \in { k \in gen_range(payload_len, blk_size) :
                   compute_pad_len(payload_len, blk_size, k) # <<>> } }

\* C39: for the payload length and the block size of the call, the pad_len
\* values compute_pad_len may return are exactly the p in 4..255 with
\* 5 + payload_len + p a multiple of max(blk_size, 8) and at least 16, and
\* the pad_len of the call made is one of them.
C39_AdmissiblePadding ==
  frm.mode = "pad" =>
    /\ returned_pad_lens(frm.payload_len, frm.blk_size)
         = admissible_pad_lens(frm.payload_len, frm.blk_size)
    /\ frm.res # <<>> /\ frm.res[1] # <<>> =>
         frm.res[1][2] \in admissible_pad_lens(frm.payload_len, frm.blk_size)
    /\ frm.res # <<>> /\ frm.res[1] = <<>> =>
         admissible_pad_lens(frm.payload_len, frm.blk_size) = {}

\* A call returned a padding that is not the smallest of several admissible
\* ones.
C39_Witness ==
  /\ frm.mode = "pad" /\ frm.blk_size = 16
  /\ frm.res # <<>> /\ frm.res[1] # <<>>
  /\ \E p \in admissible_pad_lens(frm.payload_len, frm.blk_size) : p < frm.res[1][2]
  /\ \E p \in admissible_pad_lens(frm.payload_len, frm.blk_size) : p > frm.res[1][2]

(***************************************************************************)

(* async/bufreader.rs: the BufRead implementation of AsyncBufReader, and   *)
(* handshake.rs: version_exchange, which reads the peer's line through it  *)
(* with read_until(reader, b'\n', ..).                                     *)
(***************************************************************************)
\* BufRead::fill_buf: [rd, err, avail]; the source is read whether or not
\* the buffer holds data.
BufRead_fill_buf(rd, o) ==
  LET filled(rd1) == [rd |-> rd1, err |-> None, avail |-> get_ref(rd1.buf)]
      read(r) ==
        IF r[3] = WouldBlock THEN [rd |-> rd, err |-> "WouldBlock", avail |-> <<>>]
        ELSE filled([inner |-> r[1], buf |-> fill(copy_to_mut(rd.buf, r[2]), r[3])])
  IN read(inner_read(rd.inner, get_mut_len(rd.buf), o))

BufRead_consume(rd, amt) == [rd EXCEPT !.buf = consume(rd.buf, amt)]

\* The number of bytes up to and including the first delim, 0 if there is none.
RECURSIVE position(_, _, _)
position(bytes, delim, i) ==
  IF i > Len(bytes) THEN 0
  ELSE IF bytes[i] = delim THEN i
  ELSE position(bytes, delim, i + 1)

\* One round of the loop of read_until: [rd, buf, tag].  "Ready" when the
\* delimiter or the end of the stream was met, "NotReady" on WouldBlock,
\* "More" when the loop goes on.
read_until(rd, delim, buf, o) ==
  LET used(f, i) ==
        IF i > 0
        THEN [rd |-> BufRead_consume(f.rd, i), buf |-> buf \o Take(f.avail, i),
              tag |-> "Ready"]
        ELSE [rd |-> BufRead_consume(f.rd, Len(f.avail)), buf |-> buf \o f.avail,
              tag |-> IF Len(f.avail) = 0 THEN "Ready" ELSE "More"]
      filled(f) ==
        IF f.err # None THEN [rd |-> f.rd, buf |-> buf, tag |-> "NotReady"]
        ELSE used(f, position(f.avail, delim, 1))
  IN filled(BufRead_fill_buf(rd, o))

starts_with(buf, prefix) ==
  Len(buf) >= Len(prefix) /\ SubSeq(buf, 1, Len(prefix)) = prefix

ends_with(buf, suffix) ==
  Len(buf) >= Len(suffix) /\ SubSeq(buf, Len(buf) - Len(suffix) + 1, Len(buf)) = suffix

\* "SSH-2.0-"
VersionPrefix == <<83, 83, 72, 45, 50, 46, 48, 45>>

CRLF == <<13, 10>>

\* A line check that asks for the final newline only.
valid_version_line_lf(buf) == starts_with(buf, VersionPrefix) /\ ends_with(buf, <<10>>)

valid_version_line(buf) == starts_with(buf, VersionPrefix) /\ ends_with(buf, CRLF)

\* format!("SSH-2.0-{} {}", version_string, comment)
format_v_c(version_string, comment) == VersionPrefix \o version_string \o <<32>> \o comment

\* The closure run on the line read: [ok, v_c, v_s, err].
version_exchange_read(v_c, buf) ==
  IF valid_version_line(buf)
  THEN (IF from_utf8_ok(SubSeq(buf, 1, Len(buf) - 2))
        THEN [ok |-> TRUE, v_c |-> << v_c >>, v_s |-> << SubSeq(buf, 1, Len(buf) - 2) >>,
              err |-> None]
        ELSE [ok |-> FALSE, v_c |-> <<>>, v_s |-> <<>>, err |-> "InvalidVersionExchange"])
  ELSE [ok |-> FALSE, v_c |-> <<>>, v_s |-> <<>>, err |-> "InvalidVersionExchange"]

(***************************************************************************)
(* version_exchange under test.  kex.stream is what the peer sends before  *)
(* it closes, kex.rd the reader, kex.buf the line read so far, kex.r the   *)
(* outcome of the reading half (<<>> while it runs), kex.w whether the     *)
(* writing half is done, kex.res the result of the joined future and       *)
(* kex.waits the number of reads that found nothing.                       *)
(***************************************************************************)
LinePrefixes == { VersionPrefix, <<83, 83, 72, 45, 50, 46, 48>>, <<71>>, <<>> }

LineBodies == { <<>>, <<120>>, <<255>> }

LineEndings == { CRLF, <<10>>, <<13>>, <<>> }

LineTrailers == { <<>>, <<121, 13, 10>> }

VersionCapacities == {4, 16}

VersionRequests == {WouldBlock, 3, Everything}

\* The peer's line: its bytes up to and including the first newline.
peer_line(stream) ==
  IF position(stream, 10, 1) > 0 THEN Take(stream, position(stream, 10, 1)) ELSE stream

InitVersion ==
  /\ \E prefix \in LinePrefixes, body \in LineBodies, ending \in LineEndings,
        trailer \in LineTrailers, cap0 \in VersionCapacities,
        version_string \in { <<>>, <<114>> } :
       kex = [mode |-> "version",
              stream |-> prefix \o body \o ending \o trailer,
              rd |-> AsyncBufReader_with_capacity(
                       cap0, [data |-> prefix \o body \o ending \o trailer, eof |-> TRUE]),
              v_c |-> format_v_c(version_string, <<99>>),
              buf |-> <<>>, r |-> <<>>, w |-> FALSE, res |-> <<>>, waits |-> 0]
  /\ frm = frmIdle /\ codec = codecIdle /\ drv = drvIdle

\* The joined future: an error of the reading half at once, the item when
\* both halves are done.
version_joined(r, w) ==
  IF r = <<>> THEN <<>>
  ELSE IF ~r[1].ok THEN r
  ELSE IF w THEN r
  ELSE <<>>

\* The reading half makes one read of the source.
VersionRead(o) ==
  /\ kex.mode = "version"
  /\ kex.r = <<>>
  /\ \E u \in {read_until(kex.rd, 10, kex.buf, o)} :
       \E r \in {IF u.tag = "Ready" THEN << version_exchange_read(kex.v_c, u.buf) >>
                 ELSE <<>>} :
         kex' = [kex EXCEPT !.rd = u.rd, !.buf = u.buf, !.r = r,
                            !.res = version_joined(r, kex.w),
                            !.waits = IF u.tag = "NotReady" THEN Min(@ + 1, 2) ELSE @]
  /\ UNCHANGED <<frm, codec, drv>>

\* The writing half (write_all, then flush) completes.
VersionWritten ==
  /\ kex.mode = "version"
  /\ ~kex.w
  /\ kex.res = <<>>
  /\ kex' = [kex EXCEPT !.w = TRUE, !.res = version_joined(kex.r, TRUE)]
  /\ UNCHANGED <<frm, codec, drv>>

NextVersion ==
  \/ \E o \in VersionRequests : VersionRead(o)
  \/ VersionWritten

SpecVersion == InitVersion /\ [][NextVersion]_vars

\* C16: version_exchange accepts the peer's line exactly when it starts with
\* "SSH-2.0-", ends with CR LF and is valid UTF-8 before the CR LF; then V_S
\* is the line without its CR LF and V_C the client's line without CR LF;
\* every other line yields InvalidVersionExchange.
C16_VersionLine ==
  kex.mode = "version" =>
    /\ kex.r # <<>> => kex.buf = peer_line(kex.stream)
    /\ kex.res # <<>> =>
         IF /\ starts_with(peer_line(kex.stream), VersionPrefix)
            /\ ends_with(peer_line(kex.stream), CRLF)
            /\ from_utf8_ok(SubSeq(peer_line(kex.stream), 1, Len(peer_line(kex.stream)) - 2))
         THEN /\ kex.res[1].ok
              /\ kex.res[1].v_s
                   = << SubSeq(peer_line(kex.stream), 1, Len(peer_line(kex.stream)) - 2) >>
              /\ kex.res[1].v_c = << kex.v_c >>
              /\ ~ends_with(kex.v_c, CRLF)
         ELSE ~kex.res[1].ok /\ kex.res[1].err = "InvalidVersionExchange"
    /\ kex.r # <<>> /\ kex.res = <<>> => kex.r[1].ok /\ ~kex.w

\* The line "SSH-2.0-x\r\n" arrived in pieces, with a read that found
\* nothing in between, and was accepted with V_S = "SSH-2.0-x".
C16_Witness ==
  /\ kex.mode = "version"
  /\ kex.waits >= 1
  /\ kex.res # <<>> /\ kex.res[1].ok
  /\ kex.res[1].v_s = << VersionPrefix \o <<120>> >>
  /\ Len(kex.stream) > Len(peer_line(kex.stream))

(***************************************************************************)
(* key.rs under test: KeyBuilder::digest on a KeyBuilder whose eight       *)
(* fields are each unset or set.  kex.kb is the KeyBuilder and kex.res the *)
(* result: <<>> before the call, else << KeyBuilder::digest(..) >>.        *)
(***************************************************************************)
LongField == 258

\* The values of field i: unset, two short strings that name the field,
\* and for I_C a string whose length takes two bytes.
FieldValues(i) ==
  { <<>>, << <<i>> >>, << <<i, i + 16>> >> }
    \cup (IF i = 3 THEN { << [j \in 1..LongField |-> j % 251] >> } ELSE {})

InitDigest ==
  /\ \E v_c \in FieldValues(1), v_s \in FieldValues(2), i_c \in FieldValues(3),
        i_s \in FieldValues(4), k_s \in FieldValues(5), e \in FieldValues(6),
        f \in FieldValues(7), k \in FieldValues(8) :
       kex = [mode |-> "digest",
              kb |-> [v_c |-> v_c, v_s |-> v_s, i_c |-> i_c, i_s |-> i_s,
                      k_s |-> k_s, e |-> e, f |-> f, k |-> k],
              res |-> <<>>]
  /\ frm = frmIdle /\ codec = codecIdle /\ drv = drvIdle

\* One call of KeyBuilder::digest with a fresh hash context.
Digest ==
  /\ kex.mode = "digest"
  /\ kex.res = <<>>
  /\ kex' = [kex EXCEPT !.res = << KeyBuilder_digest(kex.kb, Context_new) >>]
  /\ UNCHANGED <<frm, codec, drv>>

NextDigest == Digest

SpecDigest == InitDigest /\ [][NextDigest]_vars

\* A field with its length before it as a big-endian uint32.
LengthPrefixed(field) ==
  << (Len(field) \div 16777216) % 256, (Len(field) \div 65536) % 256,
     (Len(field) \div 256) % 256, Len(field) % 256 >> \o field

\* C17: KeyBuilder::digest hashes V_C, V_S, I_C, I_S, K_S, e, f, K in this
\* order, each preceded by its length as a big-endian uint32, and returns
\* KeyBuilderError whenever one of the eight fields is unset.
C17_DigestInput ==
  kex.mode = "digest" /\ kex.res # <<>> =>
    IF \E x \in { kex.kb.v_c, kex.kb.v_s, kex.kb.i_c, kex.kb.i_s,
                  kex.kb.k_s, kex.kb.e, kex.kb.f, kex.kb.k } : x = <<>>
    THEN kex.res[1] = <<>>
    ELSE kex.res[1] =
           << LengthPrefixed(kex.kb.v_c[1]) \o LengthPrefixed(kex.kb.v_s[1])
                \o LengthPrefixed(kex.kb.i_c[1]) \o LengthPrefixed(kex.kb.i_s[1])
                \o LengthPrefixed(kex.kb.k_s[1]) \o LengthPrefixed(kex.kb.e[1])
                \o LengthPrefixed(kex.kb.f[1]) \o LengthPrefixed(kex.kb.k[1]) >>

\* A digest was returned for a KeyBuilder whose I_C is 258 bytes long.
C17_Witness ==
  /\ kex.mode = "digest"
  /\ kex.res # <<>> /\ kex.res[1] # <<>>
  /\ Len(kex.kb.i_c[1]) = LongField
  /\ Len(kex.kb.e[1]) # Len(kex.kb.f[1])

(***************************************************************************)
(* packet/decoder.rs under test: deserialize applied to byte strings that  *)
(* are given, not produced by serialize.  codec.bytes is the input,        *)
(* codec.pieces the names a name-list input was written from, codec.res    *)
(* the result of deserialize and codec.again the serialization of the      *)
(* decoded value (<<>> until it is made).                                  *)
(***************************************************************************)
MaxPieces == 3

\* "ssh-ed25519"
SshEd25519 == <<115, 115, 104, 45, 101, 100, 50, 53, 53, 49, 57>>

\* The names of an input: the known ones, an unknown one, the empty one.
PieceValues(names) ==
  {names[i] : i \in 1..Len(names)}
    \cup (IF names = NameEnum THEN {<<117, 110, 107, 110, 111, 119, 110>>}
          ELSE {SshEd25519})
    \cup {<<>>}

\* The names with a comma between each two.
RECURSIVE comma_separated(_)
comma_separated(pieces) ==
  IF Len(pieces) = 0 THEN <<>>
  ELSE IF Len(pieces) = 1 THEN Head(pieces)
  ELSE Head(pieces) \o <<Comma>> \o comma_separated(Tail(pieces))

BoolInputs == {<<>>} \cup {<<b>> : b \in 0..255} \cup {<<0, 1>>, <<1, 0>>, <<2, 1>>}

\* The tags of a tagged union of the input: "ssh-rsa", "ssh-ed25519" and
\* the empty one; the values of its byte fields.
TagValues == {ServerHostKeyAlgorithm[1], SshEd25519, <<>>}

TagFieldValues == {<<>>, <<1>>, <<1, 0, 1>>}

\* A tagged union on the wire: the tag as a string, then each field.
tagged_bytes(tag, fields) ==
  serialize_str(tag) \o Concat([i \in 1..Len(fields) |-> serialize_bytes(fields[i])])

DecodeCase(ty, bytes, pieces) ==
  [mode |-> "bytes", ty |-> ty, bytes |-> bytes, pieces |-> pieces,
   res |-> [ok |-> FALSE, val |-> <<>>, err |-> None], again |-> <<>>]

InitDecode ==
  /\ \/ \E bytes \in BoolInputs : codec = DecodeCase(Bool, bytes, <<>>)
     \/ \E names \in {NameEnum, ServerHostKeyAlgorithm}, n \in 0..MaxPieces :
          \E pieces \in [1..n -> PieceValues(names)] :
            codec = DecodeCase(NameList(names),
                               serialize_bytes(comma_separated(pieces)), pieces)
     \/ \E ty \in {ServerKey, Signature}, tag \in TagValues :
          \E fields \in [1..Len(ty.variants[1].fields) -> TagFieldValues] :
            codec = DecodeCase(ty, tagged_bytes(tag, fields), <<tag>>)
  /\ frm = frmIdle /\ kex = kexIdle /\ drv = drvIdle

\* deserialize(bytes)
Decode ==
  /\ codec.mode = "bytes"
  /\ \E r \in {deserialize(codec.ty, codec.bytes)} :
       codec' = [codec EXCEPT !.mode = "decoded",
                              !.res = [ok |-> r.ok, val |-> r.val, err |-> r.err]]
  /\ UNCHANGED <<frm, kex, drv>>

\* serialize of the decoded value.
Reencode ==
  /\ codec.mode = "decoded"
  /\ codec.res.ok
  /\ codec' = [codec EXCEPT !.mode = "again",
                            !.again = serialize(codec.ty, codec.res.val)]
  /\ UNCHANGED <<frm, kex, drv>>

NextDecode == Decode \/ Reencode

SpecDecode == InitDecode /\ [][NextDecode]_vars

\* C18: decoding a bool gives false for the byte 0, true for the byte 1,
\* NonBoolean for every other byte and UnexpectedEOF for an empty input.
C18_BoolDecode ==
  codec.mode \in {"decoded", "again"} /\ codec.ty = Bool =>
    IF codec.bytes = <<>> THEN ~codec.res.ok /\ codec.res.err = "UnexpectedEOF"
    ELSE IF codec.bytes[1] = 0 THEN codec.res.ok /\ codec.res.val = FALSE
    ELSE IF codec.bytes[1] = 1 THEN codec.res.ok /\ codec.res.val = TRUE
    ELSE ~codec.res.ok /\ codec.res.err = "NonBoolean"

\* The byte 2 was decoded as a bool and refused.
C18_Witness ==
  /\ codec.mode = "decoded" /\ codec.ty = Bool
  /\ codec.bytes = <<2>>
  /\ codec.res.err = "NonBoolean"

\* C19: de_name_list of a name-list whose string is empty (length prefix 0)
\* yields the empty list.
C19_EmptyNameList ==
  codec.mode \in {"decoded", "again"} /\ codec.ty.k = "name_list"
    /\ codec.bytes = <<0, 0, 0, 0>> =>
      codec.res.ok /\ codec.res.val = <<>>

\* C20: de_name_list turns every name-list into the list of its names, a
\* recognized name as its variant and any other as Unknown(name), each at
\* its position, and ser_name_list of that list gives the input bytes
\* back; "ssh-ed25519,ssh-rsa" gives [Unknown("ssh-ed25519"), SSH_RSA].
C20_NameListBytes ==
  codec.mode \in {"decoded", "again"} /\ codec.ty.k = "name_list" =>
    /\ codec.res.ok
    /\ Len(codec.pieces) >= 1 =>
         codec.res.val
           = [i \in 1..Len(codec.pieces) |-> from_str(codec.ty.names, codec.pieces[i])]
    /\ codec.pieces = << SshEd25519, ServerHostKeyAlgorithm[1] >> =>
         codec.res.val = << [name |-> 0, unknown |-> SshEd25519], Known(1) >>
    /\ codec.mode = "again" => codec.again = codec.bytes

\* C21: when the source reports the end of the stream to a call of
\* nb_read_exact(n), which reads only while fewer than n bytes are
\* buffered, the call returns the error UnexpectedEof; Ready always carries
\* n bytes; NotReady is returned only when the source would block, which
\* changes nothing, or when the read brought bytes, so it is not returned
\* forever at the end of the stream.
C21_UnexpectedEof ==
  frm.mode = "exact" =>
    /\ frm.last.rsize = 0 <=> frm.last.tag = "Err"
    /\ frm.last.tag = "Err" =>
         /\ frm.last.val = "UnexpectedEof"
         /\ Len(frm.last.before) < frm.last.n
    /\ frm.last.tag = "Ready" => Len(frm.last.val) = frm.last.n
    /\ frm.last.rsize = WouldBlock =>
         frm.last.tag = "NotReady" /\ unread(frm.rd) = frm.last.before
    /\ frm.last.tag = "NotReady" => frm.last.rsize = WouldBlock \/ frm.last.rsize >= 1

\* After a slice and a NotReady result, the stream ended with a byte
\* buffered and fewer than n bytes left: UnexpectedEof.
C21_Witness ==
  /\ frm.mode = "exact"
  /\ Len(frm.out) >= 1
  /\ frm.waits >= 1
  /\ frm.last.tag = "Err" /\ frm.last.val = "UnexpectedEof"
  /\ data_size(frm.rd.buf) >= 1

(***************************************************************************)
(* async/bufreader.rs under test: successive nb_read_until(b'\n', limit)   *)
(* calls on one AsyncBufReader.  frm.stream is what the source started     *)
(* with, frm.limit the limit, frm.last the last call: its result and the   *)
(* unread bytes before it.                                                 *)
(***************************************************************************)
UntilLen == 6

UntilLimits == {2, 4}

UntilCapacities == {1, 8}

NewLine == 10

\* A stream of n bytes with a newline at offset at (none if at > n).
UntilBytes(n, at) == [i \in 1..n |-> IF i = at THEN NewLine ELSE 64 + i]

InitUntil ==
  /\ \E at \in 1..(UntilLen + 1), eof \in BOOLEAN, cap0 \in UntilCapacities,
        limit \in UntilLimits :
       frm = [mode |-> "until",
              rd |-> AsyncBufReader_with_capacity(
                       cap0, [data |-> UntilBytes(UntilLen, at), eof |-> eof]),
              stream |-> UntilBytes(UntilLen, at), limit |-> limit, calls |-> 0,
              last |-> [tag |-> "None", val |-> <<>>, before |-> <<>>]]
  /\ codec = codecIdle /\ kex = kexIdle /\ drv = drvIdle

\* One call of AsyncBufReader::nb_read_until(b'\n', limit).
ReadUntil(o) ==
  /\ frm.mode = "until"
  /\ frm.last.tag # "Err"
  /\ \E r \in {nb_read_until(frm.rd, NewLine, frm.limit, o)} :
       frm' = [frm EXCEPT !.rd = r.rd,
                          !.calls = Min(@ + 1, 3),
                          !.last = [tag |-> r.tag, val |-> r.val,
                                    before |-> unread(frm.rd)]]
  /\ UNCHANGED <<codec, kex, drv>>

NextUntil == \E o \in ExactRequests : ReadUntil(o)

SpecUntil == InitUntil /\ [][NextUntil]_vars

\* C22: nb_read_until(byte, limit) never returns Ready with more than limit
\* bytes nor with the delimiter in the slice, and when the delimiter does
\* not end a line of at most limit bytes at the head of the unread bytes it
\* does not return Ready: the result is InvalidData, or NotReady while
\* fewer than limit bytes are buffered (or UnexpectedEof when the stream
\* ends first).
C22_LimitedLine ==
  frm.mode = "until" =>
    /\ frm.last.tag = "Ready" =>
         /\ Len(frm.last.val) <= frm.limit
         /\ \A i \in 1..Len(frm.last.val) : frm.last.val[i] # NewLine
    /\ frm.last.tag # "None"
         /\ iter_position(Take(frm.last.before, frm.limit + 1), NewLine, 1) < 0 =>
           \/ frm.last.tag = "Err"
           \/ frm.last.tag = "NotReady" /\ data_size(frm.rd.buf) < frm.limit


(***************************************************************************)
(* async/buf.rs, reserve step by step: the call, each turn of its doubling *)
(* loop and the resize are separate steps, so that a loop that never ends  *)
(* is a behaviour that never returns.  frm.pc is "ready" between calls and *)
(* "loop" inside the while loop; frm.n and frm.before are the argument and *)
(* get_ref() of the call in progress or last returned.                     *)
(***************************************************************************)
MaxGrown == 8

ReserveArgs == 0..3

InitReserve ==
  /\ \E cap0 \in BufCapacities :
       frm = [mode |-> "reserve", b |-> with_capacity(cap0), pc |-> "ready",
              n |-> 0, new_capacity |-> 0, before |-> <<>>, calls |-> 0]
  /\ codec = codecIdle /\ kex = kexIdle /\ drv = drvIdle

\* if !self.try_reserve(n) { target_cap; new_capacity = self.buf.len(); ...
ReserveCall(n) ==
  /\ frm.mode = "reserve" /\ frm.pc = "ready"
  /\ Len(frm.b.buf) <= MaxGrown
  /\ \E r \in {try_reserve(frm.b, n)} :
       frm' = [frm EXCEPT !.b = r[1], !.n = n, !.before = get_ref(frm.b),
                          !.calls = Min(frm.calls + 1, 2),
                          !.pc = IF r[2] THEN "ready" ELSE "loop",
                          !.new_capacity = Len(frm.b.buf)]
  /\ UNCHANGED <<codec, kex, drv>>

\* while new_capacity < target_cap { new_capacity *= 2; }
ReserveDouble ==
  /\ frm.mode = "reserve" /\ frm.pc = "loop"
  /\ frm.new_capacity < frm.b.cap + frm.n
  /\ frm' = [frm EXCEPT !.new_capacity = frm.new_capacity * 2]
  /\ UNCHANGED <<codec, kex, drv>>

\* self.buf.resize(new_capacity, 0)
ReserveResize ==
  /\ frm.mode = "reserve" /\ frm.pc = "loop"
  /\ ~(frm.new_capacity < frm.b.cap + frm.n)
  /\ frm' = [frm EXCEPT
               !.b.buf = frm.b.buf \o Zeros(frm.new_capacity - Len(frm.b.buf)),
               !.pc = "ready"]
  /\ UNCHANGED <<codec, kex, drv>>

ReserveFill(n) ==
  /\ frm.mode = "reserve" /\ frm.pc = "ready"
  /\ frm' = [frm EXCEPT !.b = fill(frm.b, n), !.calls = 0]
  /\ UNCHANGED <<codec, kex, drv>>

ReserveConsume(n) ==
  /\ frm.mode = "reserve" /\ frm.pc = "ready"
  /\ frm' = [frm EXCEPT !.b = consume(frm.b, n), !.calls = 0]
  /\ UNCHANGED <<codec, kex, drv>>

NextReserve ==
  \/ \E n \in ReserveArgs : ReserveCall(n)
  \/ ReserveDouble
  \/ ReserveResize
  \/ \E n \in ReserveArgs : ReserveFill(n)
  \/ \E n \in ReserveArgs : ReserveConsume(n)

\* The loop and the resize are the running call: they are not postponed
\* for ever.
SpecReserve ==
  /\ InitReserve /\ [][NextReserve]_vars
  /\ WF_vars(ReserveDouble) /\ WF_vars(ReserveResize)

\* C23: from every buffer state, whatever the capacity it was built with
\* (0 included), and for every n, a call of reserve(n) returns, and when it
\* returns get_mut().len() >= n and get_ref() is what it was.
C23_ReserveTerminates ==
  [](frm.mode = "reserve" /\ frm.pc = "loop" =>
       <>(/\ frm.pc = "ready"
          /\ get_mut_len(frm.b) >= frm.n
          /\ get_ref(frm.b) = frm.before))


\* C24: nb_flush returns Ready only with the buffer empty and after a flush
\* of the sink that succeeded, so that the sink then holds every byte of the
\* nb_write_exact calls that returned Ready; nb_flush_buf writes to the sink
\* once per call, returns Ready only with the buffer empty, and leaves the
\* bytes the sink did not take in the buffer, in order.
C24_Flush ==
  frm.mode = "writer" =>
    /\ frm.last.op = "nb_flush" /\ frm.last.tag = "Ready" =>
         /\ is_empty(frm.wr.buf)
         /\ frm.wr.inner.flushes = 1
         /\ frm.wr.inner.data = frm.accepted
    /\ frm.last.op = "nb_flush_buf" =>
         /\ frm.wr.inner.writes = 1
         /\ frm.last.tag = "Ready" => is_empty(frm.wr.buf)
         /\ frm.last.tag = "NotReady" /\ frm.wr.inner.data # frm.accepted =>
              ~is_empty(frm.wr.buf)
         /\ frm.wr.inner.data \o get_ref(frm.wr.buf) = frm.last.before

\* An nb_flush_buf call drained part of the buffer and returned NotReady, and
\* a later nb_flush returned Ready with every accepted byte at the sink.
C24_Witness ==
  /\ frm.mode = "writer"
  /\ frm.drained >= 1
  /\ frm.last.op = "nb_flush" /\ frm.last.tag = "Ready"
  /\ Len(frm.accepted) >= 2
  /\ frm.wr.inner.data = frm.accepted


\* C25: decoding a host key blob or a signature blob whose tag is not the
\* name of a variant ("ssh-rsa") succeeds with the value Unknown(tag), and
\* that value is serialized with the same tag in front.
C25_UnknownTag ==
  codec.mode \in {"decoded", "again"} /\ codec.ty.k = "enum"
    /\ variant_index(codec.ty.variants, codec.pieces[1]) = 0 =>
      /\ codec.res.ok
      /\ codec.res.val.variant = 0
      /\ codec.res.val.fields = codec.pieces
      /\ codec.mode = "again" =>
           starts_with(codec.again, serialize_str(codec.pieces[1]))


(***************************************************************************)
(* handshake.rs, into_mpint and from_mpint on their own: kex.buf is an     *)
(* unsigned big-endian integer as the key agreement delivers it, kex.out   *)
(* into_mpint of it and kex.back from_mpint of that.                       *)
(***************************************************************************)
MaxMpintLen == 3

MpintBytes == {0, 1, 127, 128, 255}

InitMpint ==
  /\ \E n \in 0..MaxMpintLen : \E buf \in [1..n -> MpintBytes] :
       kex = [mode |-> "mpint", buf |-> buf, out |-> <<>>, back |-> <<>>]
  /\ frm = frmIdle /\ codec = codecIdle /\ drv = drvIdle

IntoMpint ==
  /\ kex.mode = "mpint"
  /\ kex' = [kex EXCEPT !.mode = "mpint_made", !.out = into_mpint(kex.buf)]
  /\ UNCHANGED <<frm, codec, drv>>

FromMpint ==
  /\ kex.mode = "mpint_made"
  /\ kex' = [kex EXCEPT !.mode = "mpint_read", !.back = from_mpint(kex.out)]
  /\ UNCHANGED <<frm, codec, drv>>

NextMpint == IntoMpint \/ FromMpint

SpecMpint == InitMpint /\ [][NextMpint]_vars

\* The integer that big-endian bytes denote.
RECURSIVE unsigned_value(_)
unsigned_value(bytes) ==
  IF Len(bytes) = 0 THEN 0
  ELSE unsigned_value(SubSeq(bytes, 1, Len(bytes) - 1)) * 256 + bytes[Len(bytes)]

\* C26: into_mpint turns zero, given as no bytes or as zero bytes only, into
\* the empty string; it puts a byte 0 in front of a value exactly when the
\* first byte of the value has its high bit set; and from_mpint of the
\* result denotes the integer the input denotes.
C26_Mpint ==
  kex.mode \in {"mpint_made", "mpint_read"} =>
    /\ unsigned_value(kex.buf) = 0 => kex.out = <<>>
    /\ Len(kex.buf) >= 1 /\ kex.buf[1] # 0 =>
         kex.out = IF kex.buf[1] >= 128 THEN <<0>> \o kex.buf ELSE kex.buf
    /\ kex.mode = "mpint_read" =>
         unsigned_value(kex.back) = unsigned_value(kex.buf)


(***************************************************************************)
(* transport.rs, the read pass on its own: try_read is applied again and   *)
(* again to a transport over a fresh ClientKeyExchange whose source holds  *)
(* a valid server's packets.  drv.t is the transport, drv.err the result   *)
(* of the last pass, drv.i_s the payload of the server's KEXINIT and       *)
(* drv.handed the bytes given to on_read, if it was called.                *)
(***************************************************************************)
\* The bytes a pass gives to on_read: <<>> when it does not call it.
handed_to_on_read(t, o) ==
  LET given(r) == IF r.tag = "Ready" THEN << r.val >> ELSE <<>> IN
  IF t.rd_st = <<>> THEN <<>>
  ELSE given(nb_read_exact(t.rd, t.rd_st[1] - 1, o))

InitReadPass ==
  /\ \E client_kex \in ClientKexLists, c \in PrivateKeys, s \in ServerPrivateKeys,
        rcap \in DriverCapacities :
       drv = [mode |-> "read",
              t |-> DriverStart(client_kex, << Known(2) >>, c, s, rcap, 16).t,
              i_c |-> build_kexinit_payload(Negotiation(client_kex), 167),
              i_s |-> build_kexinit_payload(Negotiation(<< Known(2) >>), 167),
              err |-> None, handed |-> <<>>, waits |-> 0]
  /\ frm = frmIdle /\ codec = codecIdle /\ kex = kexIdle

\* One call of AsyncPacketTransport::try_read.
TryRead(o, moved) ==
  /\ drv.mode = "read" /\ drv.err = None
  /\ \E r \in {try_read(drv.t, o, moved)} :
       drv' = [drv EXCEPT !.t = r.t, !.err = r.err,
                          !.waits = IF o = WouldBlock THEN Min(@ + 1, 2) ELSE @,
                          !.handed = IF handed_to_on_read(drv.t, o) # <<>>
                                     THEN handed_to_on_read(drv.t, o) ELSE @]
  /\ UNCHANGED <<frm, codec, kex>>

NextReadPass ==
  \E o \in {WouldBlock, 3, 5, Everything}, moved \in MovedOutcomes : TryRead(o, moved)

SpecReadPass == InitReadPass /\ [][NextReadPass]_vars

\* C27: the read pass gives on_read the payload of the packet and none of
\* its padding, so that the I_S AlgorithmExchangeState records and hashes is
\* the payload of the peer's KEXINIT.
C27_PayloadOnly ==
  drv.mode = "read" /\ drv.handed # <<>> =>
    /\ drv.handed[1] = drv.i_s
    /\ drv.t.st.tag = "AlgorithmExchange" /\ drv.t.st.res # <<>> =>
         drv.t.st.res[1].ctx =
           digest_bytes(digest_bytes(digest_bytes(digest_bytes(
             Context_new, V_C), V_S), drv.i_c), drv.i_s)


\* The payload of the packet a substate asks to send: its KEXINIT or its
\* KEXDH_INIT.
own_payload(st) ==
  LET payload_of(req) == IF req = <<>> THEN <<>> ELSE req[1].payload IN
  payload_of(wants_write([st EXCEPT !.written = FALSE]))

\* The bytes occur in the data, one after the other.
occurs_in(bytes, data) ==
  \E k \in 0..(Len(data) - Len(bytes)) : SubSeq(data, k + 1, k + Len(bytes)) = bytes

C29_LengthCheckPasses ==
  drv.mode = "drv" =>
    /\ drv.t.wr_st.tag = "WritePayload" =>
         drv.t.wr_st.pkt_len = Len(drv.t.wr_st.req.payload) + 6 + drv.t.wr_st.pad_len
    /\ drv.res = "Err" => drv.val # "pkt_len does not match"


(***************************************************************************)
(* What a byte stream holds, read in one piece: the payloads of the whole  *)
(* valid packets at its front, and the bytes after them.                   *)
(***************************************************************************)
\* The stream starts with a whole packet with a valid header.
whole_packet(bytes) ==
  /\ Len(bytes) >= 5
  /\ ~invalid_header(ntoh(SubSeq(bytes, 1, 4)), bytes[5])
  /\ Len(bytes) >= 4 + ntoh(SubSeq(bytes, 1, 4))

RECURSIVE stream_payloads(_)
stream_payloads(bytes) ==
  LET packet(pkt_len, pad_len) ==
        << SubSeq(bytes, 6, 5 + pkt_len - pad_len - 1) >>
          \o stream_payloads(Drop(bytes, 4 + pkt_len))
  IN IF ~whole_packet(bytes) THEN <<>>
     ELSE packet(ntoh(SubSeq(bytes, 1, 4)), bytes[5])

\* The stream after its first k packets.
RECURSIVE stream_after(_, _)
stream_after(bytes, k) ==
  IF k = 0 \/ ~whole_packet(bytes) THEN bytes
  ELSE stream_after(Drop(bytes, 4 + ntoh(SubSeq(bytes, 1, 4))), k - 1)

\* The error the stream ends in once its packets are read.
stream_error(bytes) ==
  IF Len(bytes) >= 5 /\ invalid_header(ntoh(SubSeq(bytes, 1, 4)), bytes[5])
  THEN "InvalidData" ELSE "UnexpectedEof"

\* C30: whatever the pieces the source delivers the stream in and wherever
\* it answers WouldBlock, the payloads nb_read_packet has returned are the
\* first payloads of the stream, each read leaves unread exactly the bytes
\* after its packet, and an error comes only after every whole packet, and
\* is the error the rest of the stream calls for.
C30_SplitIndependent ==
  frm.mode = "read" =>
    /\ IsPrefix(frm.out, stream_payloads(frm.stream))
    /\ \A k \in 1..Len(frm.out) : frm.rest[k] = stream_after(frm.stream, k)
    /\ frm.res = "Err" =>
         /\ frm.out = stream_payloads(frm.stream)
         /\ frm.err = stream_error(stream_after(frm.stream, Len(frm.out)))
         /\ frm.err = "UnexpectedEof" => frm.rs.inner.inner.eof

\* A packet was returned after the source had answered WouldBlock in the
\* middle of it, with the header stored.
C30_Witness ==
  /\ frm.mode = "read"
  /\ Len(frm.out) >= 1
  /\ frm.midway


(***************************************************************************)
(* The read pass and the state machine together: try_read, the poll of the *)
(* ClientKeyExchange and its on_flush, each called any number of times in  *)
(* any order until one of them fails or the poll returns Ready.  The       *)
(* source holds the server's KEXINIT, its KEXDH_REPLY and, for drv.more,   *)
(* one more KEXDH_REPLY.  drv.uses counts the on_read calls that reached   *)
(* agree_ephemeral, drv.given the packets on_read received in each         *)
(* substate.                                                               *)
(***************************************************************************)
\* What try_read hands to on_read for the packet of a payload.
as_delivered(payload) == Drop(PeerPacket(payload), 5)

\* The packets of a server whose signature is made as signs says.
HandshakeStream(client_kex, c, s, signs, more) ==
  LET i_c == build_kexinit_payload(Negotiation(client_kex), 167)
      i_s == build_kexinit_payload(Negotiation(<< Known(2) >>), 167)
      replies(reply) ==
        PeerPacket(reply) \o (IF more THEN PeerPacket(reply) ELSE <<>>)
      answered(st1) ==
        replies(ServerReply(s, signs, AlgorithmExchangeState_poll(st1, << c >>).val))
  IN PeerPacket(i_s)
       \o answered(AlgorithmExchangeState_on_read(
                     AlgorithmExchangeState_new(V_C, V_S, i_c), as_delivered(i_s)).st)

\* on_read of a KeyExchangeState with this packet gets as far as
\* agree_ephemeral.
reaches_agreement(msg) ==
  /\ Len(msg) # 0 /\ msg[1] = SSH_MSG_KEXDH_REPLY
  /\ deserialize(KexReply, Tail(msg)).ok

InitHandshake ==
  /\ \E client_kex \in ClientKexLists, c \in PrivateKeys, s \in ServerPrivateKeys,
        signs \in {"client-hash", "nothing"}, more \in BOOLEAN,
        rcap \in DriverCapacities :
       drv = [mode |-> "handshake",
              t |-> [DriverStart(client_kex, << Known(2) >>, c, s, rcap, 16).t
                       EXCEPT !.rd.inner.data =
                                HandshakeStream(client_kex, c, s, signs, more)],
              keygen |-> << c >>, more |-> more,
              err |-> None, res |-> "NotReady", uses |-> 0,
              given |-> [AlgorithmExchange |-> 0, KeyExchange |-> 0, Agreed |-> 0]]
  /\ frm = frmIdle /\ codec = codecIdle /\ kex = kexIdle

HandshakeRuns == drv.mode = "handshake" /\ drv.err = None /\ drv.res = "NotReady"

\* One call of AsyncPacketTransport::try_read.
ReadPass(o, moved) ==
  /\ HandshakeRuns
  /\ \E r \in {try_read(drv.t, o, moved)}, msg \in {handed_to_on_read(drv.t, o)} :
       drv' = [drv EXCEPT
                 !.t = r.t, !.err = r.err,
                 !.given[drv.t.st.tag] = IF msg # <<>> THEN Min(@ + 1, 2) ELSE @,
                 !.uses = IF msg # <<>> /\ drv.t.st.tag = "KeyExchange"
                             /\ reaches_agreement(msg[1])
                          THEN Min(@ + 1, 2) ELSE @]
  /\ UNCHANGED <<frm, codec, kex>>

\* self.st.poll()
StatePoll ==
  /\ HandshakeRuns
  /\ \E r \in {ClientKeyExchange_poll(drv.t.st, drv.keygen)} :
       drv' = [drv EXCEPT !.t.st = r.st,
                          !.res = IF r.tag = "Ready" THEN "Ready" ELSE "NotReady",
                          !.err = IF r.tag = "Err" THEN r.val
                                  ELSE IF r.tag = "Panic" THEN "Panic" ELSE None]
  /\ UNCHANGED <<frm, codec, kex>>

\* self.st.on_flush()
StateFlushed ==
  /\ HandshakeRuns
  /\ drv' = [drv EXCEPT !.t.st = on_flush(drv.t.st)]
  /\ UNCHANGED <<frm, codec, kex>>

NextHandshake ==
  \/ \E o \in {WouldBlock, 5, Everything}, moved \in MovedOutcomes : ReadPass(o, moved)
  \/ StatePoll
  \/ StateFlushed

SpecHandshake == InitHandshake /\ [][NextHandshake]_vars

\* C31: the ephemeral private key is used for the key agreement at most
\* once, and exactly once when the state machine has reached Agreed: no
\* on_read of KeyExchangeState reaches the agreement a second time.
C31_SingleAgreement ==
  drv.mode = "handshake" =>
    /\ drv.uses <= 1
    /\ drv.t.st.tag = "Agreed" \/ drv.res = "Ready" => drv.uses = 1
    /\ drv.t.st.tag = "KeyExchange" => (drv.uses = 1 <=> drv.t.st.priv_key = <<>>)

\* The state machine reached Agreed after one agreement, with one more
\* KEXDH_REPLY of the server still waiting.
C31_Witness ==
  /\ drv.mode = "handshake"
  /\ drv.t.st.tag = "Agreed"
  /\ drv.uses = 1
  /\ drv.more


\* C32: in one handshake on_read receives at most one packet while the
\* state is AlgorithmExchange, at most one while it is KeyExchange and none
\* while it is Agreed, so the unreachable!() of ClientKeyExchange::on_read
\* is not hit; no packet header is left half read when the state becomes
\* Agreed.
C32_OnePacketEach ==
  drv.mode = "handshake" =>
    /\ drv.given.AlgorithmExchange <= 1
    /\ drv.given.KeyExchange <= 1
    /\ drv.given.Agreed = 0
    /\ drv.err # "Panic"
    /\ drv.t.st.tag = "Agreed" => drv.t.rd_st = <<>>

\* The handshake returned Ready after one packet for each substate, with a
\* further packet of the server unread.
C32_Witness ==
  /\ drv.mode = "handshake"
  /\ drv.res = "Ready"
  /\ drv.given.AlgorithmExchange = 1 /\ drv.given.KeyExchange = 1
  /\ drv.more
  /\ Len(unread(drv.t.rd)) >= 16


(***************************************************************************)
(* handshake.rs, AlgorithmExchangeState::on_read on packets of every       *)
(* length around the 17 bytes of the message number and the cookie:        *)
(* kex.msg is the packet, kex.err the result of on_read ("Panic" when the  *)
(* call does not return).                                                  *)
(***************************************************************************)
MaxShortLen == 24

ShortPackets ==
  { << first >> \o [i \in 1..n |-> cookie_byte] :
      first \in {SSH_MSG_KEXINIT, SSH_MSG_NEWKEYS}, n \in 0..MaxShortLen,
      cookie_byte \in {0, 1} }

InitShort ==
  /\ \E msg \in ShortPackets \cup {<<>>} :
       kex = [mode |-> "short", msg |-> msg,
              st |-> AlgorithmExchangeState_new(
                       V_C, V_S, build_kexinit_payload(Negotiation(<< Known(2) >>), 167)),
              called |-> FALSE, err |-> None]
  /\ frm = frmIdle /\ codec = codecIdle /\ drv = drvIdle

OnReadShort ==
  /\ kex.mode = "short" /\ ~kex.called
  /\ \E r \in {AlgorithmExchangeState_on_read(kex.st, kex.msg)} :
       kex' = [kex EXCEPT !.st = r.st, !.err = r.err, !.called = TRUE]
  /\ UNCHANGED <<frm, codec, drv>>

NextShort == OnReadShort

SpecShort == InitShort /\ [][NextShort]_vars

\* C33: on_read of AlgorithmExchangeState with a packet that starts with the
\* byte 20 and has fewer than 17 bytes returns InvalidAlgorithmNegotiation;
\* it does not panic.
C33_ShortKexInit ==
  kex.mode = "short" /\ kex.called
    /\ Len(kex.msg) >= 1 /\ Len(kex.msg) < 17 /\ kex.msg[1] = SSH_MSG_KEXINIT =>
      kex.err = "InvalidAlgorithmNegotiation"


(***************************************************************************)
(* lib.rs: exchange_version and the VersionExchange future.  Inner is      *)
(* [reader, writer, state], state being Writing { buf, pos } or            *)
(* Reading { buf }.  The writer is a sink [data, zeros] that also counts   *)
(* the writes of which it took no byte; the reader is an AsyncBufReader    *)
(* read through BufRead.                                                   *)
(***************************************************************************)
\* write!(buf, "SSH-2.0-{} {}\r\n", version_string, comment)
exchange_version(reader, writer, version_string, comment) ==
  [reader |-> reader, writer |-> writer,
   state |-> [tag |-> "Writing",
              buf |-> format_v_c(version_string, comment) \o CRLF, pos |-> 0]]

\* Write::write on the counting sink: <<the sink afterwards, n>>.
writer_write(sink, bytes, o) ==
  LET wrote(r) ==
        << [data |-> r[1].data, zeros |-> sink.zeros + (IF r[2] = 0 THEN 1 ELSE 0)],
           r[2] >>
  IN wrote(inner_write([data |-> sink.data], bytes, o))

\* The whole loop of BufRead::read_until: [rd, buf, tag]; o1 is the request
\* of its first read of the source, o2 that of every later one.
RECURSIVE read_until_loop(_, _, _, _, _)
read_until_loop(rd, delim, buf, o1, o2) ==
  LET round(u) ==
        IF u.tag = "More" THEN read_until_loop(u.rd, delim, u.buf, o2, o2) ELSE u
  IN round(read_until(rd, delim, buf, o1))

\* Inner::poll writing &buf[..] where the code writes &buf[*pos ..].
RECURSIVE Inner_poll_from_start(_, _, _, _, _)
Inner_poll_from_start(inner, w1, w2, o1, o2) ==
  LET read(u) ==
        [inner |-> [inner EXCEPT !.reader = u.rd, !.state.buf = u.buf],
         tag |-> IF u.tag = "NotReady" THEN "NotReady" ELSE "Ready",
         val |-> None, reads |-> TRUE]
      wrote(r) ==
        IF r[2] = WouldBlock
        THEN [inner |-> [inner EXCEPT !.writer = r[1]], tag |-> "NotReady",
              val |-> None, reads |-> FALSE]
        ELSE IF r[2] = 0
        THEN [inner |-> [inner EXCEPT !.writer = r[1]], tag |-> "Err",
              val |-> "WriteZero", reads |-> FALSE]
        ELSE Inner_poll_from_start(
               [inner EXCEPT !.writer = r[1], !.state.pos = @ + r[2]],
               w2, w2, o1, o2)
  IN IF inner.state.tag = "Reading"
     THEN read(read_until_loop(inner.reader, NewLine, inner.state.buf, o1, o2))
     ELSE IF inner.state.pos < Len(inner.state.buf)
     THEN wrote(writer_write(inner.writer, inner.state.buf, w1))
     ELSE Inner_poll_from_start(
            [inner EXCEPT !.state = [tag |-> "Reading", buf |-> <<>>]],
            w1, w2, o1, o2)

\* Inner::poll: [inner, tag, val, reads]; w1 and w2 are the requests of the
\* first and of every later write of this call, o1 and o2 those of the
\* reads, and reads tells whether read_until was called.
RECURSIVE Inner_poll(_, _, _, _, _)
Inner_poll(inner, w1, w2, o1, o2) ==
  LET \* State::Reading
      read(u) ==
        [inner |-> [inner EXCEPT !.reader = u.rd, !.state.buf = u.buf],
         tag |-> IF u.tag = "NotReady" THEN "NotReady" ELSE "Ready",
         val |-> None, reads |-> TRUE]
      \* State::Writing, after one write
      wrote(r) ==
        IF r[2] = WouldBlock
        THEN [inner |-> [inner EXCEPT !.writer = r[1]], tag |-> "NotReady",
              val |-> None, reads |-> FALSE]
        ELSE IF r[2] = 0
        THEN [inner |-> [inner EXCEPT !.writer = r[1]], tag |-> "Err",
              val |-> "WriteZero", reads |-> FALSE]
        ELSE Inner_poll([inner EXCEPT !.writer = r[1], !.state.pos = @ + r[2]],
                        w2, w2, o1, o2)
  IN IF inner.state.tag = "Reading"
     THEN read(read_until_loop(inner.reader, NewLine, inner.state.buf, o1, o2))
     ELSE IF inner.state.pos < Len(inner.state.buf)
     THEN wrote(writer_write(inner.writer,
                             Drop(inner.state.buf, inner.state.pos), w1))
     ELSE Inner_poll([inner EXCEPT !.state = [tag |-> "Reading", buf |-> <<>>]],
                     w1, w2, o1, o2)


(***************************************************************************)
(* The VersionExchange future under test.  kex.inner is the Inner,         *)
(* kex.banner the line exchange_version formatted, kex.res the outcome of  *)
(* the last poll, kex.err its error and kex.reads the number of polls      *)
(* that called read_until (counted up to MaxReadPolls).  The future is     *)
(* polled while it returns NotReady.                                       *)
(***************************************************************************)
MaxReadPolls == 2

BannerRequests == {WouldBlock, 0, 1, 3, Everything}

PeerLines == { VersionPrefix \o <<120>> \o CRLF, <<83, 10, 121, 13, 10>>, <<>> }

InitBanner ==
  /\ \E stream \in PeerLines, cap0 \in VersionCapacities,
        version_string \in { <<>>, <<114>> } :
       kex = [mode |-> "banner",
              inner |-> exchange_version(
                          AsyncBufReader_with_capacity(
                            cap0, [data |-> stream, eof |-> TRUE]),
                          [data |-> <<>>, zeros |-> 0], version_string, <<99>>),
              banner |-> format_v_c(version_string, <<99>>) \o CRLF,
              res |-> "NotReady", err |-> None, reads |-> 0]
  /\ frm = frmIdle /\ codec = codecIdle /\ drv = drvIdle

\* VersionExchange::poll
BannerPoll(w1, w2, o1, o2) ==
  /\ kex.mode = "banner"
  /\ kex.res = "NotReady"
  /\ \E p \in {Inner_poll(kex.inner, w1, w2, o1, o2)} :
       kex' = [kex EXCEPT !.inner = p.inner, !.res = p.tag, !.err = p.val,
                          !.reads = IF p.reads THEN Min(@ + 1, MaxReadPolls) ELSE @]
  /\ UNCHANGED <<frm, codec, drv>>

NextBanner ==
  \E w1, w2 \in BannerRequests, o1, o2 \in VersionRequests : BannerPoll(w1, w2, o1, o2)

SpecBanner == InitBanner /\ [][NextBanner]_vars

\* C34: the sink holds the first pos bytes of the banner, each once and in
\* order, whatever the writes took; read_until is called only once the sink
\* holds the whole banner; and a write of which the sink took no byte ends
\* the exchange with WriteZero, the only way that error arises.
C34_BannerBeforeRead ==
  kex.mode = "banner" =>
    /\ kex.inner.writer.data = Take(kex.banner, Len(kex.inner.writer.data))
    /\ kex.inner.state.tag = "Writing" =>
         /\ kex.inner.writer.data = Take(kex.banner, kex.inner.state.pos)
         /\ kex.inner.state.pos <= Len(kex.banner)
         /\ kex.reads = 0
    /\ kex.inner.state.tag = "Reading" \/ kex.reads > 0 =>
         kex.inner.writer.data = kex.banner
    /\ kex.inner.writer.zeros > 0 <=> kex.res = "Err" /\ kex.err = "WriteZero"

\* The banner went out in pieces, across a poll that returned NotReady, and
\* the peer's line was read afterwards.
C34_Witness ==
  /\ kex.mode = "banner"
  /\ kex.res = "Ready"
  /\ kex.reads = 2
  /\ kex.inner.writer.data = kex.banner
  /\ Len(kex.inner.state.buf) > 0

\* A write took no byte after part of the banner was out.
C34_WitnessZero ==
  /\ kex.mode = "banner"
  /\ kex.err = "WriteZero"
  /\ kex.inner.state.pos > 0


(***************************************************************************)
(* async/bufwriter.rs: impl Drop for AsyncBufWriter.  The writer of the    *)
(* model always owns its sink (nb_into_inner is not called), so            *)
(* self.inner.is_some() holds.                                             *)
(***************************************************************************)
\* drop: the writer as it is when the destructor returns; o is the request
\* of the write it may make.
drop(w, o) == IF ~w.panicked THEN nb_flush_buf(w, o).w ELSE w

(***************************************************************************)
(* The destructor under test: nb_write_exact, nb_flush_buf and nb_flush    *)
(* are called in any order on one writer, which is then dropped.  frm.wr   *)
(* is the writer, its sink counting the writes it receives during each     *)
(* call, frm.count the number of inputs accepted, frm.held the bytes       *)
(* buffered when the destructor started and frm.last the last call and     *)
(* its outcome.                                                            *)
(***************************************************************************)
InitDrop ==
  /\ \E cap0 \in ExactWriterCapacities :
       frm = [mode |-> "drop",
              wr |-> AsyncBufWriter_with_capacity(
                       cap0, [data |-> <<>>, writes |-> 0, flushes |-> 0]),
              count |-> 0, dropped |-> FALSE, held |-> <<>>,
              last |-> [op |-> "None", tag |-> "None"]]
  /\ codec = codecIdle /\ kex = kexIdle /\ drv = drvIdle

DropWriteExact(n, o1, o2) ==
  /\ frm.mode = "drop" /\ ~frm.dropped
  /\ frm.count < MaxWrites
  /\ \E r \in {nb_write_exact(at_call(frm.wr), InputBytes(frm.count + 1, n), o1, o2)} :
       frm' = [frm EXCEPT !.wr = r.w,
                          !.count = IF r.tag = "Ready" THEN @ + 1 ELSE @,
                          !.last = [op |-> "nb_write_exact", tag |-> r.tag]]
  /\ UNCHANGED <<codec, kex, drv>>

DropFlushBuf(o) ==
  /\ frm.mode = "drop" /\ ~frm.dropped
  /\ \E r \in {nb_flush_buf(at_call(frm.wr), o)} :
       frm' = [frm EXCEPT !.wr = r.w, !.last = [op |-> "nb_flush_buf", tag |-> r.tag]]
  /\ UNCHANGED <<codec, kex, drv>>

DropFlush(o1, o2) ==
  /\ frm.mode = "drop" /\ ~frm.dropped
  /\ \E r \in {nb_flush(at_call(frm.wr), o1, o2)} :
       frm' = [frm EXCEPT !.wr = r.w, !.last = [op |-> "nb_flush", tag |-> r.tag]]
  /\ UNCHANGED <<codec, kex, drv>>

\* The writer goes out of scope.
DropWriter(o) ==
  /\ frm.mode = "drop" /\ ~frm.dropped
  /\ frm' = [frm EXCEPT !.wr = drop(at_call(frm.wr), o), !.dropped = TRUE,
                        !.held = get_ref(frm.wr.buf)]
  /\ UNCHANGED <<codec, kex, drv>>

NextDrop ==
  \/ \E n \in 0..MaxInput, o1 \in SinkRequests, o2 \in SinkRequests :
       DropWriteExact(n, o1, o2)
  \/ \E o \in SinkRequests : DropFlushBuf(o)
  \/ \E o1 \in SinkRequests, o2 \in SinkRequests : DropFlush(o1, o2)
  \/ \E o \in SinkRequests : DropWriter(o)

SpecDrop == InitDrop /\ [][NextDrop]_vars

\* C37: once the writer is dropped, its sink received exactly one write
\* during the destructor, whatever the calls before it returned.
C37_DropFlushes ==
  frm.mode = "drop" /\ frm.dropped => frm.wr.inner.writes = 1


(***************************************************************************)
(* async/bufwriter.rs: impl Write for AsyncBufWriter.                      *)
(***************************************************************************)
\* AsyncBuf::reserve_size is called by write and defined nowhere in
\* buf.rs; it is taken to be the room behind the data, get_mut().len(),
\* the largest value for which the slice get_mut()[.. datasize] exists.
reserve_size(b) == Len(b.buf) - b.cap

\* Write::write: [w, n, path]; n is WouldBlock or the count returned, path
\* tells whether the bytes went to write_inner ("inner") or to the buffer
\* ("buffered"); o1 is the request of the write nb_flush_buf makes, o2 that
\* of write_inner.
Write_write(w, bytes, o1, o2) ==
  LET datasize(w1) == Min(reserve_size(w1.buf), Len(bytes))
      direct(r) == [w |-> r.w, n |-> r.n, path |-> "inner"]
      flushed(w1) ==
        IF is_empty(w1.buf) /\ capacity(w1.buf) < Len(bytes)
        THEN direct(write_inner(w1, bytes, o2))
        ELSE [w |-> [w1 EXCEPT !.buf = copy_to_mut(w1.buf, Take(bytes, datasize(w1)))],
              n |-> datasize(w1), path |-> "buffered"]
  IN flushed(IF Len(bytes) > reserve_size(w.buf) THEN nb_flush_buf(w, o1).w ELSE w)

\* Write::flush with a sink that takes up to o bytes at every write, o >= 1:
\* the writer afterwards.
RECURSIVE Write_flush(_, _)
Write_flush(w, o) ==
  LET again(r) ==
        IF r.tag = "NotReady" THEN Write_flush(r.w, o) ELSE flush_inner(r.w, o).w
  IN again(nb_flush_buf(w, o))

(***************************************************************************)
(* The Write impl under test.  frm.wr is the writer, frm.accepted the      *)
(* bytes it accepted so far, in order: the inputs of the nb_write_exact    *)
(* calls that returned Ready and the first k bytes of each write that      *)
(* returned Ok(k); frm.count the number of inputs given, and frm.last the  *)
(* last call, what it returned and the path it took.                       *)
(***************************************************************************)
StdWriterCapacities == {2, 4}

StdFlushRequests == {1, Everything}

InitStdWrite ==
  /\ \E cap0 \in StdWriterCapacities :
       frm = [mode |-> "stdwrite",
              wr |-> AsyncBufWriter_with_capacity(cap0, [data |-> <<>>]),
              accepted |-> <<>>, count |-> 0,
              last |-> [op |-> "None", n |-> 0, path |-> "None"]]
  /\ codec = codecIdle /\ kex = kexIdle /\ drv = drvIdle

\* One call of nb_write_exact with an input of n bytes.
StdWriteExact(n, o1, o2) ==
  /\ frm.mode = "stdwrite"
  /\ frm.count < MaxWrites
  /\ \E r \in {nb_write_exact(frm.wr, InputBytes(frm.count + 1, n), o1, o2)} :
       frm' = [frm EXCEPT !.wr = r.w,
                          !.accepted = IF r.tag = "Ready"
                                       THEN @ \o InputBytes(frm.count + 1, n) ELSE @,
                          !.count = @ + 1,
                          !.last = [op |-> "nb_write_exact",
                                    n |-> IF r.tag = "Ready" THEN n ELSE WouldBlock,
                                    path |-> "None"]]
  /\ UNCHANGED <<codec, kex, drv>>

\* One call of Write::write with an input of n bytes.
StdWrite(n, o1, o2) ==
  /\ frm.mode = "stdwrite"
  /\ frm.count < MaxWrites
  /\ \E r \in {Write_write(frm.wr, InputBytes(frm.count + 1, n), o1, o2)} :
       frm' = [frm EXCEPT !.wr = r.w,
                          !.accepted = IF r.n = WouldBlock THEN @
                                       ELSE @ \o Take(InputBytes(frm.count + 1, n), r.n),
                          !.count = @ + 1,
                          !.last = [op |-> "write", n |-> r.n, path |-> r.path]]
  /\ UNCHANGED <<codec, kex, drv>>

\* One call of Write::flush that returns Ok.
StdFlush(o) ==
  /\ frm.mode = "stdwrite"
  /\ frm' = [frm EXCEPT !.wr = Write_flush(frm.wr, o),
                        !.last = [op |-> "flush", n |-> 0, path |-> frm.last.path]]
  /\ UNCHANGED <<codec, kex, drv>>

NextStdWrite ==
  \/ \E n \in 0..MaxInput, o1 \in SinkRequests, o2 \in SinkRequests :
       StdWriteExact(n, o1, o2)
  \/ \E n \in 0..MaxInput, o1 \in SinkRequests, o2 \in SinkRequests : StdWrite(n, o1, o2)
  \/ \E o \in StdFlushRequests : StdFlush(o)

SpecStdWrite == InitStdWrite /\ [][NextStdWrite]_vars

\* C38: after a flush that returned Ok the sink holds every byte the writer
\* accepted, those of write included, in the order they were accepted.
C38_WriteBuffered ==
  frm.mode = "stdwrite" /\ frm.last.op = "flush" => frm.wr.inner.data = frm.accepted


(***************************************************************************)
(* async/bufreader.rs under test: nb_read_until(b'\n', limit) and          *)
(* nb_read_exact(n) called in any order on one AsyncBufReader.  frm.last   *)
(* is the last call: its name, its result, the unread bytes and the reader *)
(* before it, and prev, the name and the result tag of the call before.    *)
(***************************************************************************)
DelimCounts == {1, 2}

InitDelim ==
  /\ \E at \in 1..(UntilLen + 1), eof \in BOOLEAN, cap0 \in UntilCapacities,
        limit \in UntilLimits :
       frm = [mode |-> "delim",
              rd |-> AsyncBufReader_with_capacity(
                       cap0, [data |-> UntilBytes(UntilLen, at), eof |-> eof]),
              stream |-> UntilBytes(UntilLen, at), limit |-> limit,
              last |-> [op |-> "None", tag |-> "None", val |-> <<>>, before |-> <<>>,
                        rd_before |-> <<>>, prev |-> <<"None", "None">>]]
  /\ codec = codecIdle /\ kex = kexIdle /\ drv = drvIdle

DelimCalled(op, r) ==
  [frm EXCEPT !.rd = r.rd,
              !.last = [op |-> op, tag |-> r.tag, val |-> r.val,
                        before |-> unread(frm.rd), rd_before |-> frm.rd,
                        prev |-> <<frm.last.op, frm.last.tag>>]]

\* One call of AsyncBufReader::nb_read_until(b'\n', limit).
DelimUntil(o) ==
  /\ frm.mode = "delim"
  /\ frm.last.tag # "Err"
  /\ \E r \in {nb_read_until(frm.rd, NewLine, frm.limit, o)} :
       frm' = DelimCalled("nb_read_until", r)
  /\ UNCHANGED <<codec, kex, drv>>

\* One call of AsyncBufReader::nb_read_exact(n).
DelimExact(n, o) ==
  /\ frm.mode = "delim"
  /\ frm.last.tag # "Err"
  /\ \E r \in {nb_read_exact(frm.rd, n, o)} : frm' = DelimCalled("nb_read_exact", r)
  /\ UNCHANGED <<codec, kex, drv>>

NextDelim ==
  \/ \E o \in ExactRequests : DelimUntil(o)
  \/ \E n \in DelimCounts, o \in ExactRequests : DelimExact(n, o)

SpecDelim == InitDelim /\ [][NextDelim]_vars

\* C40: when nb_read_until returns Ready, the slice and the bytes left
\* unread are the bytes unread before, and the first byte left is the
\* delimiter, held in the buffer; an nb_read_until that follows at once
\* returns the empty slice and leaves the reader and its source as they
\* were, whatever the source would have answered; and an nb_read_exact that
\* follows at once and returns bytes returns the delimiter first.
C40_DelimiterStays ==
  frm.mode = "delim" =>
    /\ frm.last.op = "nb_read_until" /\ frm.last.tag = "Ready" =>
         /\ frm.last.val \o unread(frm.rd) = frm.last.before
         /\ \A i \in 1..Len(frm.last.val) : frm.last.val[i] # NewLine
         /\ data_size(frm.rd.buf) >= 1
         /\ get_ref(frm.rd.buf)[1] = NewLine
    /\ frm.last.op = "nb_read_until" /\ frm.last.prev = <<"nb_read_until", "Ready">> =>
         /\ frm.last.tag = "Ready" /\ frm.last.val = <<>>
         /\ frm.rd = frm.last.rd_before
    /\ frm.last.op = "nb_read_exact" /\ frm.last.prev = <<"nb_read_until", "Ready">>
         /\ frm.last.tag = "Ready" =>
           frm.last.val[1] = NewLine

\* After a line of several bytes was returned, nb_read_exact(2) returned the
\* delimiter and the byte behind it.
C40_Witness ==
  /\ frm.mode = "delim"
  /\ frm.last.op = "nb_read_exact" /\ frm.last.prev = <<"nb_read_until", "Ready">>
  /\ frm.last.tag = "Ready" /\ Len(frm.last.val) = 2
  /\ frm.last.val[1] = NewLine
  /\ Len(frm.stream) - Len(frm.last.before) >= 2

\* nb_read_until was repeated at once after a line of several bytes.
C40_WitnessRepeated ==
  /\ frm.mode = "delim"
  /\ frm.last.op = "nb_read_until" /\ frm.last.prev = <<"nb_read_until", "Ready">>
  /\ frm.last.val = <<>>
  /\ Len(frm.stream) - Len(frm.last.before) >= 2

=============================================================================
